---------------------------- MODULE Spec2Model ----------------------------
(***************************************************************************)
(* ShikenMatrix Reporter: the producers (monitoring thread, main.rs        *)
(* polling task, direct calls), the change detector, the outbound queue,   *)
(* the control loop of Reporter::run_reporter with its backoff, the artwork*)
(* upload cache and the FFI lifecycle (sm_reporter_start / _stop).         *)
(*                                                                         *)
(* Conventions of the model                                                *)
(*  - Every Reporter instance has an identity in Reporters; all of its     *)
(*    fields and the locals of its two background threads are functions    *)
(*    over Reporters.  An instance that was never created has              *)
(*    alive = FALSE and pc = "none".                                       *)
(*  - A fingerprint (compute_hash) is the tuple of the values fed to the   *)
(*    hasher, in the order the Hash impls feed them; the initial slot      *)
(*    value 0 is the empty tuple.  64-bit SipHash collisions are outside   *)
(*    the model.                                                           *)
(*  - An f64 is an integer count of tenths of the unit its Hash impl       *)
(*    truncates to (elapsed_time: tenths of a second); NaN and values      *)
(*    beyond the i64 range are outside the model.                          *)
(*  - A string the code rewrites (ws_url) is a sequence of tokens.         *)
(*  - Sleeps are control states ("idle_sleep", "retry_wait", "cooldown").  *)
(***************************************************************************)
EXTENDS Integers, Sequences, FiniteSets, TLC

(***************************************************************************)
(* Bounds of the model                                                     *)
(***************************************************************************)
MaxReporters == 2
MaxCalls == 3
MaxProduced == 5
MaxApiMedia == 2
MaxFfiCalls == 3

(***************************************************************************)
(* Program constants                                                       *)
(***************************************************************************)
MAX_RECONNECT_ATTEMPTS == 5

Reporters == 1..MaxReporters
NoReporter == 0

\* the host threads that call into the library
Callers == {"host1", "host2"}

None == <<>>
Some(x) == <<x>>
IsSome(o) == o # None
Unwrap(o) == o[1]

(***************************************************************************)
(* ReporterConfig                                                          *)
(***************************************************************************)
Urls == { <<>>, <<"https://", "collector.example/ws">> }
Tokens == { "t1" }
\* config.rs 20-28: disabled, empty endpoint, empty token
DefaultConfig == [enabled |-> FALSE, ws_url |-> <<>>, token |-> ""]

\* the configurations of the runs: the default one, and those with an
\* endpoint or enabled
Configs ==
    {DefaultConfig}
    \cup {c \in [enabled : BOOLEAN, ws_url : Urls, token : Tokens] :
             c.enabled \/ c.ws_url # <<>>}
EnabledConfig ==
    [enabled |-> TRUE, ws_url |-> <<"https://", "collector.example/ws">>, token |-> "t1"]

\* str::replace(from, to): every occurrence, wherever it stands in the string
ReplaceToken(u, from, to) ==
    [i \in 1..Len(u) |-> IF u[i] = from THEN to ELSE u[i]]

NormalizeUrl(u) ==
    ReplaceToken(ReplaceToken(u, "http://", "ws://"), "https://", "wss://")

Schemes == {"http://", "https://", "ws://", "wss://"}

\* Url::parse: a string that does not start with a scheme is an error
UrlParseOk(u) == Len(u) > 0 /\ u[1] \in Schemes

\* url.query_pairs_mut().append_pair("token", &cfg.token)
WsUrl(cfg) == [url |-> NormalizeUrl(cfg.ws_url), query |-> <<"token", cfg.token>>]
NoUrl == [url |-> <<>>, query |-> <<>>]

(***************************************************************************)
(* config.toml                                                             *)
(***************************************************************************)
\* Result values
Ok(v) == [ok |-> TRUE, value |-> v]
Err(e) == [ok |-> FALSE, error |-> e]

\* the text of the file: something that is no TOML, or a TOML document
\* without a [reporter] table, or with one; of the table what counts is
\* which of the keys it has, and the TOML type and the text of their values
Garbage == [toml |-> FALSE]
Doc(reporter) == [toml |-> TRUE, reporter |-> reporter]
Val(type, text) == [type |-> type, text |-> text]
Tables ==
    [enabled : {None, Some(Val("boolean", "true")), Some(Val("boolean", "false")),
                Some(Val("string", "yes"))},
     ws_url : {None} \cup {Some(Val("string", u)) : u \in Urls},
     token : {None, Some(Val("string", "t1")), Some(Val("integer", "7"))}]

\* the TOML type each field of ReporterConfig deserializes from
FieldType == [enabled |-> "boolean", ws_url |-> "string", token |-> "string"]
Contents == {Garbage, Doc(None)} \cup {Doc(Some(t)) : t \in Tables}

\* the file: absent, or present with a text that can be read or not
MissingFile == [exists |-> FALSE]
Files ==
    {MissingFile} \cup [exists : {TRUE}, readable : BOOLEAN, content : Contents]

\* AppConfig::default(), config.rs 14-18 with 20-28
AppConfig(reporter) == [reporter |-> reporter]
AppConfigDefault == AppConfig(DefaultConfig)

\* fs::read_to_string(&path), line 58
ReadToString(file) ==
    IF file.exists /\ file.readable THEN Ok(file.content) ELSE Err("io")

\* toml::from_str::<AppConfig>, line 60: `reporter` has #[serde(default)];
\* enabled, ws_url and token of ReporterConfig have none, so each must be
\* there with a value of its type
TomlFromStr(content) ==
    IF ~content.toml THEN Err("syntax")
    ELSE IF content.reporter = None THEN Ok(AppConfigDefault)
    ELSE LET t == Unwrap(content.reporter) IN
         IF \E k \in DOMAIN FieldType : t[k] = None
         THEN Err("missing field")
         ELSE IF \E k \in DOMAIN FieldType : Unwrap(t[k]).type # FieldType[k]
         THEN Err("invalid type")
         ELSE Ok(AppConfig([enabled |-> Unwrap(t.enabled).text = "true",
                            ws_url |-> Unwrap(t.ws_url).text,
                            token |-> Unwrap(t.token).text]))

\* load_config that hands the error of the read or of the parser on
load_config_Propagate(file) ==
    IF ~file.exists THEN AppConfigDefault
    ELSE LET content == ReadToString(file) IN
         IF content.ok
         THEN LET parsed == TomlFromStr(content.value) IN
              IF parsed.ok THEN parsed.value ELSE parsed
         ELSE content

\* load_config, config.rs 50-77
load_config(file) ==
    IF ~file.exists THEN AppConfigDefault
    ELSE LET content == ReadToString(file) IN
         IF content.ok
         THEN LET parsed == TomlFromStr(content.value) IN
              IF parsed.ok THEN parsed.value ELSE AppConfigDefault
         ELSE AppConfigDefault

VARIABLES
    \* Reporter fields
    alive,              \* the instance was created by Reporter::new
    config,             \* Arc<RwLock<ReporterConfig>>
    queue,              \* the unbounded mpsc channel tx -> rx
    last_window_hash,   \* Arc<AtomicU64>
    last_media_hash,    \* Arc<AtomicU64>
    artwork_urls,       \* Arc<RwLock<HashMap<String, String>>>
    is_connected,       \* Arc<AtomicBool>
    \* run_reporter
    pc,                 \* position of the control loop
    reconnect_attempts, \* its local counter
    ws_url,             \* its local: the URL of the current cycle
    wire,               \* frames written to the transport, in order
    lost,               \* messages dequeued whose send failed
    backoff_log,        \* the last handshake results and backoff steps
    observe,            \* which of the logs this specification records
    \* start_window_monitoring locals
    last_window_info,
    last_media_metadata,
    last_playback_state,
    permission_warned,
    cycle,              \* the part of its polling cycle a poller runs next
    \* the messages a producer has built and not yet handed to tx.send
    pending,
    produced,           \* messages handed to tx.send so far
    \* the Snapshot Source
    curWindow,
    curMedia,
    mediaEnv,           \* ENABLE_MEDIA_REPORTING == "1"
    serFaults,          \* serde_json::to_string can return Err in this run
    config_file,        \* config.toml as the file system holds it
    app_config,         \* what load_config returned to main, once it has
    \* producer call logs
    calls,
    captures,
    mcalls,
    cached_uploads,     \* upload_artwork calls for an id uploaded and cached
    \* ffi/reporter.rs
    GLOBAL_REPORTER,    \* the instance the Mutex<Option<..>> holds, or none
    ffi_pc,             \* where each host thread stands in sm_reporter_start
    ffi_arg,            \* the configuration it passed to sm_reporter_start
    ffi_ret,            \* what its last call returned
    \* histories
    queue_ids,          \* the enqueue number of each message in the queue
    wire_ids,           \* the enqueue number of the message of each frame written
    conn_starts,        \* the lengths the wire had when a handshake succeeded
    tx_err,             \* tx.send calls that returned Err, and those logged
    skipped,            \* the monitoring thread has skipped a cycle, disabled
    episode,            \* the last capture of the monitoring thread, and
                        \* whether the fault episode it is in was logged
    closed              \* the inbound side of the latest connection has
                        \* yielded a close frame or a read error

reporterVars == <<alive, config, queue, last_window_hash, last_media_hash,
                  artwork_urls, is_connected>>
loopVars == <<pc, reconnect_attempts, ws_url, wire, lost, backoff_log, observe>>
monitorVars == <<last_window_info, last_media_metadata, last_playback_state,
                 permission_warned, cycle>>
producerVars == <<pending, produced, calls, captures, mcalls, cached_uploads>>
envVars == <<curWindow, curMedia, mediaEnv, serFaults, config_file, app_config>>
ffiVars == <<GLOBAL_REPORTER, ffi_pc, ffi_arg, ffi_ret>>
ghostVars == <<queue_ids, wire_ids, conn_starts, tx_err, skipped, episode, closed>>

vars == <<reporterVars, loopVars, monitorVars, producerVars, envVars, ffiVars, ghostVars>>


(***************************************************************************)
(* Snapshots (platform/mod.rs, platform/macos/media.rs)                    *)
(***************************************************************************)
WindowInfo(t, i, p, n, a) ==
    [title |-> t, icon_data |-> i, process_name |-> p, pid |-> n, app_id |-> a]

W1 == WindowInfo("Editor", None, "editor.exe", 100, None)
W2 == WindowInfo("Browser", None, "browser.exe", 200, None)
\* W1 with one field changed
W1_icon == [W1 EXCEPT !.icon_data = Some("png")]
W1_title == [W1 EXCEPT !.title = "Editor*"]
W1_process == [W1 EXCEPT !.process_name = "editor2.exe"]
W1_pid == [W1 EXCEPT !.pid = 101]
W1_app == [W1 EXCEPT !.app_id = Some("com.editor")]

Windows == {W1, W2, W1_icon, W1_title, W1_process, W1_pid, W1_app}

\* the windows the foreground moves between in the monitored runs
SourceWindows == {W1, W2, W1_icon}

\* get_frontmost_window_info_sync: Ok(window) or Err(reason)
CaptureErr == [err |-> "no accessibility permission"]
WindowResults == SourceWindows \cup {CaptureErr}

PlaybackState(pl, r, e) == [playing |-> pl, playback_rate |-> r, elapsed_time |-> e]

\* update_cache_from_info: content id = "{bundle}:{title}:{album}"
MediaMetadata(t, art) ==
    [bundle_identifier |-> Some("com.player"), title |-> Some(t), artist |-> None,
     album |-> None, duration |-> 1800000, artwork_data |-> art,
     artwork_mime_type |-> IF art = None THEN None ELSE Some("image/png"),
     content_item_identifier |-> Some(<<"com.player", t, "">>)]

TrackA == MediaMetadata("A", Some("b64:imgA"))
TrackB == MediaMetadata("B", Some("b64:imgB"))
Tracks == {TrackA, TrackB}
ContentIds == {Unwrap(m.content_item_identifier) : m \in Tracks}

\* elapsed_time in tenths of a second: -0.9 s, 0.9 s, 1.1 s, 1.5 s
Elapsed == {0 - 9, 9, 11, 15}
PlaybackStates == {PlaybackState(TRUE, 1000, e) : e \in Elapsed}

\* what one polling cycle reads from get_media_metadata / get_playback_state
MediaResults == {None} \cup {Some(<<m, s>>) : m \in Tracks, s \in PlaybackStates}

\* base64 STANDARD.decode: Ok(bytes) as Some, Err as None
Base64Decode(d) ==
    CASE d = "b64:imgA" -> Some("imgA")
      [] d = "b64:imgB" -> Some("imgB")
      [] OTHER -> None

\* the url the collector issues for an uploaded artwork
UrlOf(cid) == <<"https://collector.example/artwork/", cid>>

(***************************************************************************)
(* Protocol types and fingerprints (reporter.rs 28-119)                    *)
(***************************************************************************)
\* `as i64` on an f64 held in tenths of the target unit: toward zero
TruncF64(x) == IF x >= 0 THEN x \div 10 ELSE 0 - ((0 - x) \div 10)

\* info.pid as u32: the same number for the non-negative pids of the model
PidAsU32(p) == IF p >= 0 THEN p ELSE 0 - p

WindowInfoData(info) ==
    [title |-> info.title, process_name |-> info.process_name, icon_url |-> None,
     app_id |-> info.app_id, pid |-> PidAsU32(info.pid)]

\* the derived Hash with the app_id field left out
HashWindowInfoData_NoAppId(d) == <<d.title, d.process_name, d.icon_url, d.pid>>

\* #[derive(Hash)] on WindowInfoData: every field, in declaration order
HashWindowInfoData(d) == <<d.title, d.process_name, d.icon_url, d.app_id, d.pid>>

MediaMetadataData(m, url) ==
    [bundle_identifier |-> m.bundle_identifier, title |-> m.title, artist |-> m.artist,
     album |-> m.album, duration |-> m.duration, artwork_url |-> url,
     content_item_identifier |-> m.content_item_identifier]

\* impl Hash for MediaMetadataData
HashMediaMetadataData(d) ==
    <<d.bundle_identifier, d.title, d.artist, d.album, TruncF64(d.duration),
      d.artwork_url, d.content_item_identifier>>

PlaybackStateData(s) ==
    [playing |-> s.playing, playback_rate |-> s.playback_rate,
     elapsed_time |-> s.elapsed_time]

\* the Hash impl feeding elapsed_time as it is, with no cast to i64
HashPlaybackStateData_NoCast(d) ==
    <<d.playing, TruncF64(d.playback_rate), d.elapsed_time>>

\* impl Hash for PlaybackStateData
HashPlaybackStateData(d) ==
    <<d.playing, TruncF64(d.playback_rate), TruncF64(d.elapsed_time)>>

\* compute_hash(&(&metadata_data, &state_data))
HashMedia(md, sd) == <<HashMediaMetadataData(md), HashPlaybackStateData(sd)>>

\* AtomicU64::new(0)
ZeroHash == <<>>

WindowInfoMessage(d) == [msg_type |-> "window_info", data |-> d]
MediaPlaybackMessage(md, sd) ==
    [msg_type |-> "media_playback", metadata |-> md, playback_state |-> sd]
UploadArtwork(cid, bytes, mime) ==
    [msg_type |-> "upload_artwork", content_item_identifier |-> cid,
     artwork_data |-> bytes, mime_type |-> mime]
\* frames on the wire: Message::Text(json) and Message::Binary(bytes)
TextFrame(m) == [frame |-> "text", json |-> m]
BinaryFrame(b) == [frame |-> "binary", bytes |-> b]
UploadArtworkMetaMessage(cid, mime) ==
    [msg_type |-> "upload_artwork_meta", content_item_identifier |-> cid,
     mime_type |-> mime]

Producers == {"monitor", "task", "api"}
\* the producers that poll the Snapshot Source once a second
Pollers == {"monitor", "task"}

\* what a call into the library returned: the function, its boolean result
\* (for sm_reporter_start: the handle is not null; for sm_reporter_get_status:
\* the is_running field), the is_connected field of an SmStatus, and the
\* number of the call among those of its thread, where calls are counted
Ret(fn, ok, conn, n) == [fn |-> fn, ok |-> ok, is_connected |-> conn, n |-> n]
NoRet == Ret("none", FALSE, FALSE, 0)

\* no capture tried yet
NoEpisode == [last |-> "none", logged |-> FALSE, twice |-> FALSE]

(***************************************************************************)
(* Initial states                                                          *)
(***************************************************************************)
\* every field but alive, config and pc, as Reporter::new leaves them
InitBlank ==
    /\ queue = [r \in Reporters |-> <<>>]
    /\ last_window_hash = [r \in Reporters |-> ZeroHash]
    /\ last_media_hash = [r \in Reporters |-> ZeroHash]
    /\ artwork_urls = [r \in Reporters |-> [c \in ContentIds |-> None]]
    /\ is_connected = [r \in Reporters |-> FALSE]
    /\ reconnect_attempts = [r \in Reporters |-> 0]
    /\ ws_url = [r \in Reporters |-> NoUrl]
    /\ wire = [r \in Reporters |-> <<>>]
    /\ lost = [r \in Reporters |-> 0]
    /\ backoff_log = [r \in Reporters |-> <<>>]
    /\ last_window_info = [r \in Reporters |-> None]
    /\ last_media_metadata = [r \in Reporters |-> None]
    /\ last_playback_state = [r \in Reporters |-> None]
    /\ permission_warned = [r \in Reporters |-> FALSE]
    /\ cycle = [r \in Reporters |-> [p \in Pollers |-> "window"]]
    /\ pending = [r \in Reporters |-> [p \in Producers |-> <<>>]]
    /\ produced = [r \in Reporters |-> 0]
    /\ calls = [r \in Reporters |-> <<>>]
    /\ captures = [r \in Reporters |-> <<>>]
    /\ mcalls = [r \in Reporters |-> <<>>]
    /\ cached_uploads = [r \in Reporters |-> [p \in Producers |-> 0]]
    /\ GLOBAL_REPORTER = NoReporter
    /\ queue_ids = [r \in Reporters |-> <<>>]
    /\ wire_ids = [r \in Reporters |-> <<>>]
    /\ conn_starts = [r \in Reporters |-> {}]
    /\ tx_err = [r \in Reporters |-> [failed |-> 0, logged |-> 0]]
    /\ skipped = [r \in Reporters |-> FALSE]
    /\ episode = [r \in Reporters |-> NoEpisode]
    /\ closed = [r \in Reporters |-> FALSE]
    /\ ffi_pc = [k \in Callers |-> "idle"]
    /\ ffi_arg = [k \in Callers |-> None]
    /\ ffi_ret = [k \in Callers |-> NoRet]

\* Reporter::new(cfg) was called for the instances in rs, and for no other
InitReporters(rs) ==
    /\ InitBlank
    /\ config_file = MissingFile
    /\ app_config = None
    /\ alive = [r \in Reporters |-> r \in rs]
    /\ pc = [r \in Reporters |-> IF r \in rs THEN "top" ELSE "none"]
    /\ config \in {f \in [Reporters -> Configs] :
                      \A r \in Reporters \ rs : f[r] = DefaultConfig}

(***************************************************************************)
(* Reporter::run_reporter (reporter.rs 455-601)                            *)
(***************************************************************************)
Last(n, q) == IF Len(q) <= n THEN q ELSE SubSeq(q, Len(q) - n + 1, Len(q))

\* the log keeps the last MAX_RECONNECT_ATTEMPTS entries, where it is recorded
Logged(log, e) ==
    IF "backoff" \in observe THEN Last(MAX_RECONNECT_ATTEMPTS, Append(log, e)) ELSE log

\* the top of a cycle without the test of line 468
LoopTop_IgnoreEnabled(r) ==
    /\ pc[r] = "top"
    /\ LET cfg == config[r] IN
       IF ~UrlParseOk(NormalizeUrl(cfg.ws_url))
       THEN /\ pc' = [pc EXCEPT ![r] = "idle_sleep"]
            /\ UNCHANGED <<is_connected, ws_url>>
       ELSE /\ ws_url' = [ws_url EXCEPT ![r] = WsUrl(cfg)]
            /\ is_connected' = [is_connected EXCEPT ![r] = FALSE]
            /\ pc' = [pc EXCEPT ![r] = "connecting"]
    /\ UNCHANGED <<alive, config, queue, last_window_hash, last_media_hash, artwork_urls>>
    /\ UNCHANGED <<reconnect_attempts, wire, lost, backoff_log, observe>>
    /\ UNCHANGED <<monitorVars, producerVars, envVars, ffiVars, ghostVars>>

\* lines 466-490: read the configuration, resolve the endpoint
LoopTop(r) ==
    /\ pc[r] = "top"
    /\ LET cfg == config[r] IN
       IF ~cfg.enabled \/ ~UrlParseOk(NormalizeUrl(cfg.ws_url))
       THEN /\ pc' = [pc EXCEPT ![r] = "idle_sleep"]
            /\ UNCHANGED <<is_connected, ws_url>>
       ELSE /\ ws_url' = [ws_url EXCEPT ![r] = WsUrl(cfg)]
            /\ is_connected' = [is_connected EXCEPT ![r] = FALSE]
            /\ pc' = [pc EXCEPT ![r] = "connecting"]
    /\ UNCHANGED <<alive, config, queue, last_window_hash, last_media_hash, artwork_urls>>
    /\ UNCHANGED <<reconnect_attempts, wire, lost, backoff_log, observe>>
    /\ UNCHANGED <<monitorVars, producerVars, envVars, ffiVars, ghostVars>>

\* lines 469 and 484: the 5 s sleep is over
IdleWake(r) ==
    /\ pc[r] = "idle_sleep"
    /\ pc' = [pc EXCEPT ![r] = "top"]
    /\ UNCHANGED <<reporterVars, monitorVars, producerVars, envVars, ffiVars, ghostVars>>
    /\ UNCHANGED <<reconnect_attempts, ws_url, wire, lost, backoff_log, observe>>

\* the enqueue numbers and the connection boundaries are recorded where the
\* order of the frames is observed
Ordered == "order" \in observe
Opened(starts, w) == IF Ordered THEN starts \cup {Len(w)} ELSE starts

\* HandshakeOk without line 510: the counter keeps its value
HandshakeOk_NoReset(r) ==
    /\ pc[r] = "connecting"
    /\ is_connected' = [is_connected EXCEPT ![r] = TRUE]
    /\ backoff_log' = [backoff_log EXCEPT ![r] =
           Logged(@, [cause |-> "handshake_ok", wait |-> "none"])]
    /\ pc' = [pc EXCEPT ![r] = "connected"]
    /\ conn_starts' = [conn_starts EXCEPT ![r] = Opened(@, wire_ids[r])]
    /\ UNCHANGED <<alive, config, queue, last_window_hash, last_media_hash, artwork_urls>>
    /\ UNCHANGED <<reconnect_attempts, ws_url, wire, lost, observe>>
    /\ UNCHANGED <<monitorVars, producerVars, envVars, ffiVars>>
    /\ closed' = [closed EXCEPT ![r] = FALSE]
    /\ UNCHANGED <<queue_ids, wire_ids, tx_err, skipped, episode>>

\* lines 507-512: the handshake succeeded
HandshakeOk(r) ==
    /\ pc[r] = "connecting"
    /\ is_connected' = [is_connected EXCEPT ![r] = TRUE]
    /\ backoff_log' = [backoff_log EXCEPT ![r] =
           Logged(@, [cause |-> "handshake_ok", wait |-> "none"])]
    /\ reconnect_attempts' = [reconnect_attempts EXCEPT ![r] = 0]
    /\ pc' = [pc EXCEPT ![r] = "connected"]
    /\ conn_starts' = [conn_starts EXCEPT ![r] = Opened(@, wire_ids[r])]
    /\ UNCHANGED <<alive, config, queue, last_window_hash, last_media_hash, artwork_urls>>
    /\ UNCHANGED <<ws_url, wire, lost, observe>>
    /\ UNCHANGED <<monitorVars, producerVars, envVars, ffiVars>>
    /\ closed' = [closed EXCEPT ![r] = FALSE]
    /\ UNCHANGED <<queue_ids, wire_ids, tx_err, skipped, episode>>

\* WaitFor with `>` for `>=`
WaitFor_Greater(n) == IF n > MAX_RECONNECT_ATTEMPTS THEN "cooldown" ELSE "retry_wait"

\* a loop that returns after a failed attempt
WaitFor_Halt(n) == "halted"

\* lines 591-599: count the attempt, choose the wait
WaitFor(n) == IF n >= MAX_RECONNECT_ATTEMPTS THEN "cooldown" ELSE "retry_wait"

Backoff(r, cause) ==
    LET n == reconnect_attempts[r] + 1 IN
    /\ reconnect_attempts' = [reconnect_attempts EXCEPT ![r] = n]
    /\ pc' = [pc EXCEPT ![r] = WaitFor(n)]
    /\ backoff_log' = [backoff_log EXCEPT ![r] =
           Logged(@, [cause |-> cause, wait |-> WaitFor(n)])]

\* ExitConnected without the store of line 579
ExitConnected_KeepFlag(r) ==
    /\ UNCHANGED is_connected
    /\ Backoff(r, "session_ended")

\* line 579: the select loop was left by a break
ExitConnected(r) ==
    /\ is_connected' = [is_connected EXCEPT ![r] = FALSE]
    /\ Backoff(r, "session_ended")

\* lines 581-588: the handshake failed, or timed out after 15 s
HandshakeFail(r) ==
    /\ pc[r] = "connecting"
    /\ \E why \in {"failed", "timeout"} :
          /\ is_connected' = [is_connected EXCEPT ![r] = FALSE]
          /\ Backoff(r, "handshake_failed")
    /\ UNCHANGED <<alive, config, queue, last_window_hash, last_media_hash, artwork_urls>>
    /\ UNCHANGED <<ws_url, wire, lost, observe>>
    /\ UNCHANGED <<monitorVars, producerVars, envVars, ffiVars, ghostVars>>

\* line 598: the 3 s sleep is over
RetryWake(r) ==
    /\ pc[r] = "retry_wait"
    /\ pc' = [pc EXCEPT ![r] = "top"]
    /\ UNCHANGED <<reporterVars, monitorVars, producerVars, envVars, ffiVars, ghostVars>>
    /\ UNCHANGED <<reconnect_attempts, ws_url, wire, lost, backoff_log, observe>>

\* CooldownWake without the reset of line 595
CooldownWake_NoReset(r) ==
    /\ pc[r] = "cooldown"
    /\ pc' = [pc EXCEPT ![r] = "top"]
    /\ UNCHANGED <<reporterVars, monitorVars, producerVars, envVars, ffiVars, ghostVars>>
    /\ UNCHANGED <<reconnect_attempts, ws_url, wire, lost, backoff_log, observe>>

\* lines 594-595: the 30 s sleep is over
CooldownWake(r) ==
    /\ pc[r] = "cooldown"
    /\ reconnect_attempts' = [reconnect_attempts EXCEPT ![r] = 0]
    /\ pc' = [pc EXCEPT ![r] = "top"]
    /\ UNCHANGED <<reporterVars, monitorVars, producerVars, envVars, ffiVars, ghostVars>>
    /\ UNCHANGED <<ws_url, wire, lost, backoff_log, observe>>

\* the frames written and the sends that failed, where they are recorded
Wrote(w, frames) == IF "wire" \in observe THEN w \o frames ELSE w
Failed(n) == IF observe \cap {"wire", "lost"} # {} THEN n + 1 ELSE n

\* rx.recv() handing out the newest message of the channel
RecvPos_Newest(q) == Len(q)

\* rx.recv(), line 516: the position of the message it returns, the oldest
RecvPos(q) == 1

RemoveAt(q, k) == SubSeq(q, 1, k - 1) \o SubSeq(q, k + 1, Len(q))

\* the two frames of an upload with the binary frame first
UploadFrames_BinaryFirst(msg) ==
    <<BinaryFrame(msg.artwork_data),
      TextFrame(UploadArtworkMetaMessage(msg.content_item_identifier, msg.mime_type))>>

\* lines 535-542: the meta frame, then the binary frame
UploadFrames(msg) ==
    <<TextFrame(UploadArtworkMetaMessage(msg.content_item_identifier, msg.mime_type)),
      BinaryFrame(msg.artwork_data)>>

\* the frames a message is written as (lines 519-520, 527-528, 535-542)
FramesOf(msg) ==
    IF msg.msg_type = "upload_artwork" THEN UploadFrames(msg) ELSE <<TextFrame(msg)>>

\* whether the loop breaks when the send failed after n frames of the message:
\* lines 522, 530 and 544 break; a failed meta frame (line 541) does not
Breaks(msg, n) == ~(msg.msg_type = "upload_artwork" /\ n = 0)

\* what a frame is: a binary frame, or the text frame of a message type
FrameClass(f) == IF f.frame = "binary" THEN "binary" ELSE f.json.msg_type

\* the record of the first n frames of the message with enqueue number id
WrittenAs(id, frames, n) ==
    [i \in 1..n |-> [id |-> id, frame |-> FrameClass(frames[i])]]

\* serde_json::to_string(..) of lines 519, 527, 540
SerializeResults == IF serFaults THEN {"ok", "err"} ELSE {"ok"}

\* a loop that treats a message it cannot serialize as a send error
AfterSerializeError_Break(r) == ExitConnected(r)

\* lines 519, 527, 540: `if let Ok(json)` has no else branch, the select
\* loop goes on with the next message
AfterSerializeError(r) == UNCHANGED <<is_connected, pc, reconnect_attempts, backoff_log>>

\* the select loop of lines 514-577 runs: with both arms, or with the
\* rx.recv() arm alone once read.next() has yielded None ("read_ended")
InSession(r) == pc[r] \in {"connected", "read_ended"}

\* lines 516-551: one message taken from rx, serialized and written
SendNext(r) ==
    /\ InSession(r)
    /\ queue[r] # <<>>
    /\ LET k == RecvPos(queue[r])
           msg == queue[r][k]
           frames == FramesOf(msg)
       IN
       /\ queue' = [queue EXCEPT ![r] = RemoveAt(@, k)]
       /\ queue_ids' = [queue_ids EXCEPT ![r] = IF Ordered THEN RemoveAt(@, k) ELSE @]
       /\ \E json \in SerializeResults, n \in 0..Len(frames) :
             IF json = "err"
             THEN \* no frame is built and nothing is sent
                  /\ n = 0
                  /\ UNCHANGED <<wire, wire_ids, lost>>
                  /\ AfterSerializeError(r)
             ELSE /\ wire' = [wire EXCEPT ![r] = Wrote(@, SubSeq(frames, 1, n))]
                  /\ wire_ids' = [wire_ids EXCEPT ![r] =
                         IF Ordered THEN @ \o WrittenAs(queue_ids[r][k], frames, n) ELSE @]
                  /\ IF n = Len(frames)
                     THEN UNCHANGED <<lost, is_connected, pc, reconnect_attempts,
                                      backoff_log>>
                     ELSE /\ lost' = [lost EXCEPT ![r] = Failed(@)]
                          /\ IF Breaks(msg, n)
                             THEN ExitConnected(r)
                             ELSE UNCHANGED <<is_connected, pc, reconnect_attempts,
                                              backoff_log>>
    /\ UNCHANGED <<alive, config, last_window_hash, last_media_hash, artwork_urls>>
    /\ UNCHANGED <<ws_url, observe>>
    /\ UNCHANGED <<monitorVars, producerVars, envVars, ffiVars>>
    /\ UNCHANGED <<conn_starts, tx_err, skipped, episode, closed>>

\* inbound frames the collector can send
ServerMessage(t, cid, url) ==
    [msg_type |-> t, content_item_identifier |-> cid, artwork_url |-> url]

InboundText ==
    {ServerMessage("artwork_uploaded", Some(c), Some(UrlOf(c))) : c \in ContentIds}
    \cup {ServerMessage("artwork_uploaded", Some(c), None) : c \in ContentIds}
    \cup {ServerMessage("artwork_uploaded", None, Some(UrlOf(c))) : c \in ContentIds}
    \cup {ServerMessage("error", Some(c), Some(<<"rejected">>)) : c \in ContentIds}
    \cup {ServerMessage("pong", None, None)}

\* the test of lines 557-558 without the message type
IsAck_AnyType(m) ==
    /\ IsSome(m.content_item_identifier)
    /\ IsSome(m.artwork_url)

\* lines 557-558: an acknowledgement that names its content id and its url
IsAck(m) ==
    /\ m.msg_type = "artwork_uploaded"
    /\ IsSome(m.content_item_identifier)
    /\ IsSome(m.artwork_url)

\* an insert that keeps no other entry
Insert_Fresh(urls, m) ==
    [c \in DOMAIN urls |->
        IF c = Unwrap(m.content_item_identifier) THEN m.artwork_url ELSE None]

\* lines 559-561: urls.insert(content_id, url)
Insert(urls, m) == [urls EXCEPT ![Unwrap(m.content_item_identifier)] = m.artwork_url]

\* lines 552-576: one inbound frame
RecvText(r) ==
    /\ pc[r] = "connected"
    /\ \E m \in InboundText :
          IF IsAck(m)
          THEN artwork_urls' = [artwork_urls EXCEPT ![r] = Insert(@, m)]
          ELSE UNCHANGED artwork_urls
    /\ UNCHANGED <<alive, config, queue, last_window_hash, last_media_hash, is_connected>>
    /\ UNCHANGED <<loopVars, monitorVars, producerVars, envVars, ffiVars, ghostVars>>

\* the closure of the inbound side is recorded where it is observed
Closed(c) == IF "closed" \in observe THEN TRUE ELSE c

\* the inbound arm without the breaks of lines 568 and 572
RecvClose_NoBreak(r) ==
    /\ pc[r] = "connected"
    /\ closed' = [closed EXCEPT ![r] = Closed(@)]
    /\ UNCHANGED <<reporterVars, loopVars, monitorVars, producerVars, envVars, ffiVars>>
    /\ UNCHANGED <<queue_ids, wire_ids, conn_starts, tx_err, skipped, episode>>

\* line 552: read.next() yields None. The pattern Some(msg) does not match,
\* select! disables the arm and the loop goes on with the rx.recv() arm; no
\* break is taken, the flag and the counter are not touched
ReadEnd(r) ==
    /\ pc[r] = "connected"
    /\ pc' = [pc EXCEPT ![r] = "read_ended"]
    /\ UNCHANGED <<reconnect_attempts, ws_url, wire, lost, backoff_log, observe>>
    /\ UNCHANGED <<reporterVars, monitorVars, producerVars, envVars, ffiVars, ghostVars>>

\* lines 566-573: Close frame or read error
RecvClose(r) ==
    /\ pc[r] = "connected"
    /\ \E f \in {"close", "error"} : ExitConnected(r)
    /\ closed' = [closed EXCEPT ![r] = Closed(@)]
    /\ UNCHANGED <<alive, config, queue, last_window_hash, last_media_hash, artwork_urls>>
    /\ UNCHANGED <<ws_url, wire, lost, observe>>
    /\ UNCHANGED <<monitorVars, producerVars, envVars, ffiVars>>
    /\ UNCHANGED <<queue_ids, wire_ids, conn_starts, tx_err, skipped, episode>>

\* an update_config that also ends the live connection
UpdateConfigTo_Reconnect(r, cfgs) ==
    /\ alive[r]
    /\ \E cfg \in cfgs : config' = [config EXCEPT ![r] = cfg]
    /\ pc' = [pc EXCEPT ![r] = IF @ = "connected" THEN "top" ELSE @]
    /\ is_connected' = [is_connected EXCEPT ![r] = FALSE]
    /\ UNCHANGED <<alive, queue, last_window_hash, last_media_hash, artwork_urls>>
    /\ UNCHANGED <<reconnect_attempts, ws_url, wire, lost, backoff_log, observe>>
    /\ UNCHANGED <<monitorVars, producerVars, envVars, ffiVars, ghostVars>>

\* Reporter::update_config (lines 603-609)
UpdateConfigTo(r, cfgs) ==
    /\ alive[r]
    /\ \E cfg \in cfgs : config' = [config EXCEPT ![r] = cfg]
    /\ UNCHANGED <<alive, queue, last_window_hash, last_media_hash, artwork_urls,
                   is_connected>>
    /\ UNCHANGED <<loopVars, monitorVars, producerVars, envVars, ffiVars, ghostVars>>

UpdateConfig(r) == UpdateConfigTo(r, Configs)

(***************************************************************************)
(* The connection manager alone: one Reporter, any configuration, the      *)
(* collector and update_config as the environment.                         *)
(***************************************************************************)
InitConn ==
    /\ InitReporters({1})
    /\ observe = {"backoff"}
    /\ curWindow = CaptureErr
    /\ curMedia = None
    /\ mediaEnv = FALSE
    /\ serFaults = FALSE


NextConn ==
    \E r \in Reporters :
       \/ LoopTop(r)
       \/ IdleWake(r)
       \/ HandshakeOk(r)
       \/ HandshakeFail(r)
       \/ RetryWake(r)
       \/ CooldownWake(r)
       \/ RecvText(r)
       \/ RecvClose(r)
       \/ UpdateConfig(r)

SpecConn == InitConn /\ [][NextConn]_vars

(***************************************************************************)
(* Claims about the connection manager                                     *)
(***************************************************************************)
IsFailure(e) == e.cause = "handshake_failed"

\* C7: whenever 5 consecutive handshake attempts failed and the waits between
\* them (after the 1st to the 4th) were the short interval, the wait after
\* the 5th, before the 6th attempt, is the long cooldown.
C7_SixthAttemptAfterCooldown ==
    \A r \in Reporters :
       LET log == backoff_log[r] IN
       ( /\ Len(log) = MAX_RECONNECT_ATTEMPTS
         /\ \A i \in 1..Len(log) : IsFailure(log[i])
         /\ \A i \in 1..(Len(log) - 1) : log[i].wait = "retry_wait" )
       => log[Len(log)].wait = "cooldown"

\* five failures in a row at the short interval, the control loop now in the
\* long cooldown
C7_Witness ==
    /\ pc[1] = "cooldown"
    /\ Len(backoff_log[1]) = MAX_RECONNECT_ATTEMPTS
    /\ \A i \in 1..MAX_RECONNECT_ATTEMPTS : IsFailure(backoff_log[1][i])
    /\ \A i \in 1..(MAX_RECONNECT_ATTEMPTS - 1) : backoff_log[1][i].wait = "retry_wait"

\* C8: the counter is zero as soon as a handshake has succeeded, whatever it
\* was before, and no failure that preceded a success counts toward a later
\* ceiling: fewer than MAX_RECONNECT_ATTEMPTS backoff steps after a success
\* never end in the long cooldown.
C8_CounterResetOnSuccess ==
    \A r \in Reporters :
       /\ pc[r] = "connected" => reconnect_attempts[r] = 0
       /\ \A i, j \in 1..Len(backoff_log[r]) :
             (i < j /\ backoff_log[r][i].cause = "handshake_ok")
             => backoff_log[r][j].wait # "cooldown"

\* a handshake that succeeded right after failed attempts
C8_Witness ==
    LET log == backoff_log[1] IN
    /\ pc[1] = "connected"
    /\ Len(log) >= 4
    /\ log[Len(log)].cause = "handshake_ok"
    /\ \A i \in (Len(log) - 3)..(Len(log) - 1) : IsFailure(log[i])
    /\ reconnect_attempts[1] = 0

(***************************************************************************)
(* Producers of window_info                                                *)
(***************************************************************************)
\* messages a producer has built or handed over to the channel
InFlight(r) ==
    Len(pending[r]["monitor"]) + Len(pending[r]["task"]) + Len(pending[r]["api"])

\* send_window_info without the comparison of line 623: every call enqueues
send_window_info_NoCompare(r, p, info) ==
    LET data == WindowInfoData(info)
        new_hash == HashWindowInfoData(data)
        old_hash == last_window_hash[r]
    IN  /\ last_window_hash' = [last_window_hash EXCEPT ![r] = new_hash]
        /\ pending' = [pending EXCEPT ![r][p] = <<WindowInfoMessage(data)>>]
        /\ calls' = [calls EXCEPT ![r] =
               Last(2, Append(@, [by |-> p, info |-> info, old |-> old_hash,
                                  enqueued |-> 0]))]

\* send_window_info with the slot read back after it was stored
send_window_info_LoadAfterStore(r, p, info) ==
    LET data == WindowInfoData(info)
        new_hash == HashWindowInfoData(data)
        old_hash == new_hash
    IN  /\ last_window_hash' = [last_window_hash EXCEPT ![r] = new_hash]
        /\ pending' = [pending EXCEPT ![r][p] =
               IF new_hash # old_hash THEN <<WindowInfoMessage(data)>> ELSE <<>>]
        /\ calls' = [calls EXCEPT ![r] =
               Last(2, Append(@, [by |-> p, info |-> info, old |-> old_hash,
                                  enqueued |-> 0]))]

\* Reporter::send_window_info, lines 611-630: fingerprint, atomic swap, and
\* the message built when the fingerprint changed; tx.send follows in TxSend
send_window_info(r, p, info) ==
    LET data == WindowInfoData(info)
        new_hash == HashWindowInfoData(data)
        old_hash == last_window_hash[r]
    IN  /\ last_window_hash' = [last_window_hash EXCEPT ![r] = new_hash]
        /\ pending' = [pending EXCEPT ![r][p] =
               IF new_hash # old_hash THEN <<WindowInfoMessage(data)>> ELSE <<>>]
        /\ calls' = [calls EXCEPT ![r] =
               Last(2, Append(@, [by |-> p, info |-> info, old |-> old_hash,
                                  enqueued |-> 0]))]

\* the log entry of producer p's call, if the log still holds it
MarkEnqueued(log, p) ==
    LET mine == {i \in 1..Len(log) : log[i].by = p} IN
    IF mine = {} THEN log
    ELSE LET k == CHOOSE i \in mine : \A j \in mine : j <= i IN
         [log EXCEPT ![k].enqueued = @ + 1]

\* what the caller logs when tx.send returns Err: send_window_info pushes a
\* log line (lines 631-634); send_media_playback and upload_artwork discard
\* the result (`let _ =`, lines 669 and 674)
LogsSendError(msg) == msg.msg_type = "window_info"

\* self.tx.send(msg), lines 631, 669 and 674: the next message the producer
\* has built goes to the channel; it returns Err when the receiver is gone
TxSend(r, p) ==
    /\ pending[r][p] # <<>>
    /\ LET msg == Head(pending[r][p]) IN
       IF pc[r] = "dead"
       THEN /\ tx_err' = [tx_err EXCEPT ![r] =
                   [failed |-> @.failed + 1,
                    logged |-> @.logged + (IF LogsSendError(msg) THEN 1 ELSE 0)]]
            /\ UNCHANGED <<queue, queue_ids, calls, mcalls>>
       ELSE /\ queue' = [queue EXCEPT ![r] = Append(@, msg)]
            /\ queue_ids' = [queue_ids EXCEPT ![r] =
                   IF Ordered THEN Append(@, produced[r] + 1) ELSE @]
            /\ calls' = [calls EXCEPT ![r] =
                   IF msg.msg_type = "window_info" THEN MarkEnqueued(@, p) ELSE @]
            /\ mcalls' = [mcalls EXCEPT ![r] =
                   IF msg.msg_type = "media_playback" THEN MarkEnqueued(@, p) ELSE @]
            /\ UNCHANGED tx_err
    /\ pending' = [pending EXCEPT ![r][p] = Tail(@)]
    /\ produced' = [produced EXCEPT ![r] = @ + 1]
    /\ UNCHANGED <<alive, config, last_window_hash, last_media_hash, artwork_urls,
                   is_connected>>
    /\ UNCHANGED <<captures, cached_uploads>>
    /\ UNCHANGED <<loopVars, monitorVars, envVars, ffiVars>>
    /\ UNCHANGED <<wire_ids, conn_starts, skipped, episode, closed>>

\* a direct call of the public send_window_info with any snapshot
CallSendWindowInfo(r, infos) ==
    /\ alive[r]
    /\ pending[r]["api"] = <<>>
    /\ produced[r] + InFlight(r) < MaxCalls
    /\ \E info \in infos : send_window_info(r, "api", info)
    /\ UNCHANGED <<alive, config, queue, last_media_hash, artwork_urls, is_connected>>
    /\ UNCHANGED <<produced, captures, mcalls, cached_uploads>>
    /\ UNCHANGED <<loopVars, monitorVars, envVars, ffiVars, ghostVars>>

ApiSendWindowInfo(r) == CallSendWindowInfo(r, Windows)

\* the media part follows the window part where ENABLE_MEDIA_REPORTING is "1"
AfterWindow == IF mediaEnv THEN "media" ELSE "window"

\* the fault episodes of window capture, recorded where they are observed:
\* the result of the last cycle that tried a capture, whether an error was
\* logged in the episode of failures it belongs to, and whether one was
\* logged a second time in that episode
Failure(e, logs) ==
    IF "faults" \in observe
    THEN [last |-> "err",
          logged |-> IF e.last = "err" THEN e.logged \/ logs ELSE logs,
          twice |-> IF e.last = "err" THEN e.twice \/ (e.logged /\ logs) ELSE FALSE]
    ELSE e
Success(e) ==
    IF "faults" \in observe
    THEN [last |-> "ok", logged |-> FALSE, twice |-> FALSE]
    ELSE e

\* line 341: permission_warned = false
ResetWarned(warned) == FALSE

\* start_window_monitoring, lines 307-353: one polling cycle, window part
MonitorWindow(r) ==
    /\ alive[r]
    /\ cycle[r]["monitor"] = "window"
    /\ pending[r]["monitor"] = <<>>
    /\ IF ~config[r].enabled
       THEN \* lines 312-321: the cycle is skipped
            /\ skipped' = [skipped EXCEPT ![r] = IF "skips" \in observe THEN TRUE ELSE @]
            /\ UNCHANGED <<cycle, permission_warned, last_window_info, last_window_hash,
                           pending, calls, captures, episode>>
       ELSE /\ cycle' = [cycle EXCEPT ![r]["monitor"] = AfterWindow]
            /\ UNCHANGED skipped
            /\ IF curWindow = CaptureErr
               THEN \* lines 346-352: push_log(1, ..) unless warned already
                    /\ episode' = [episode EXCEPT ![r] =
                           Failure(@, ~permission_warned[r])]
                    /\ permission_warned' = [permission_warned EXCEPT ![r] = TRUE]
                    /\ UNCHANGED <<last_window_info, last_window_hash, pending, calls,
                                   captures>>
               ELSE /\ Len(captures[r]) < MaxCalls
                    /\ captures' = [captures EXCEPT ![r] = Append(@, curWindow)]
                    /\ episode' = [episode EXCEPT ![r] = Success(@)]
                    /\ IF last_window_info[r] # Some(curWindow)
                       THEN /\ send_window_info(r, "monitor", curWindow)
                            /\ permission_warned' =
                                   [permission_warned EXCEPT ![r] = ResetWarned(@)]
                            /\ last_window_info' =
                                   [last_window_info EXCEPT ![r] = Some(curWindow)]
                       ELSE UNCHANGED <<last_window_info, last_window_hash, pending,
                                        calls, permission_warned>>
    /\ UNCHANGED <<alive, config, queue, last_media_hash, artwork_urls, is_connected>>
    /\ UNCHANGED <<last_media_metadata, last_playback_state>>
    /\ UNCHANGED <<produced, mcalls, cached_uploads>>
    /\ UNCHANGED <<loopVars, envVars, ffiVars>>
    /\ UNCHANGED <<queue_ids, wire_ids, conn_starts, tx_err, closed>>

\* the foreground window changes, or the capture starts or stops failing
WindowChange ==
    /\ curWindow' \in WindowResults \ {curWindow}
    /\ UNCHANGED <<curMedia, mediaEnv, serFaults, config_file, app_config>>
    /\ UNCHANGED <<reporterVars, loopVars, monitorVars, producerVars, ffiVars, ghostVars>>

(***************************************************************************)
(* The change detector for windows under direct calls: one Reporter, a     *)
(* caller of send_window_info with any snapshots.                          *)
(***************************************************************************)
InitApi ==
    /\ InitReporters({1})
    /\ observe = {}
    /\ curWindow = CaptureErr
    /\ curMedia = None
    /\ mediaEnv = FALSE
    /\ serFaults = FALSE

NextApi ==
    \E r \in Reporters :
       \/ ApiSendWindowInfo(r)
       \/ TxSend(r, "api")

SpecApi == InitApi /\ [][NextApi]_vars

(***************************************************************************)
(* A Reporter with its monitoring thread as the only producer (the FFI     *)
(* embedding), the control loop and the collector; media reporting is off  *)
(* (ENABLE_MEDIA_REPORTING unset).                                         *)
(***************************************************************************)
InitMonitor ==
    /\ InitReporters({1})
    /\ observe = {"wire"}
    /\ curWindow \in WindowResults
    /\ curMedia = None
    /\ mediaEnv = FALSE
    /\ serFaults = FALSE

NextMonitor ==
    \/ WindowChange
    \/ \E r \in Reporters :
          \/ MonitorWindow(r)
          \/ TxSend(r, "monitor")
          \/ UpdateConfig(r)
          \/ LoopTop(r)
          \/ IdleWake(r)
          \/ HandshakeOk(r)
          \/ HandshakeFail(r)
          \/ RetryWake(r)
          \/ CooldownWake(r)
          \/ SendNext(r)
          \/ RecvClose(r)

SpecMonitor == InitMonitor /\ [][NextMonitor]_vars

(***************************************************************************)
(* Claims about the change detector for windows                            *)
(***************************************************************************)
Fingerprint(info) == HashWindowInfoData(WindowInfoData(info))

\* the last two calls of send_window_info on r have returned
TwoCallsDone(r) ==
    /\ Len(calls[r]) = 2
    /\ \A p \in Producers : pending[r][p] = <<>>

\* C1: of two consecutive calls send_window_info(s); send_window_info(s) the
\* second enqueues nothing, and the two enqueue exactly one window_info
\* message in total when s is new to the Reporter at the first call (the
\* slot held another fingerprint, or none yet).
C1_Idempotence ==
    \A r \in Reporters :
       (TwoCallsDone(r) /\ calls[r][1].info = calls[r][2].info)
       => /\ calls[r][2].enqueued = 0
          /\ calls[r][1].old # Fingerprint(calls[r][1].info)
             => calls[r][1].enqueued + calls[r][2].enqueued = 1

\* a fresh Reporter was sent the same snapshot twice: one message is queued
C1_Witness ==
    /\ TwoCallsDone(1)
    /\ calls[1][1].info = calls[1][2].info
    /\ calls[1][1].old = ZeroHash
    /\ calls[1][1].enqueued = 1
    /\ calls[1][2].enqueued = 0
    /\ Len(queue[1]) = 1

DiffersInReported(a, b) ==
    \/ a.title # b.title
    \/ a.process_name # b.process_name
    \/ a.pid # b.pid
    \/ a.app_id # b.app_id

\* C2: after send_window_info(s), send_window_info(s') enqueues exactly one
\* message when s' differs from s in title, process_name, pid or app_id, and
\* none when s' differs from s in the icon data only.
C2_ChangeSensitivity ==
    \A r \in Reporters :
       TwoCallsDone(r)
       => LET s1 == calls[r][1].info
              s2 == calls[r][2].info
          IN  /\ DiffersInReported(s1, s2) => calls[r][2].enqueued = 1
              /\ (~DiffersInReported(s1, s2) /\ s1.icon_data # s2.icon_data)
                 => calls[r][2].enqueued = 0

\* a snapshot that differs in app_id only was sent and enqueued, after which
\* the queue holds both messages
C2_Witness ==
    /\ TwoCallsDone(1)
    /\ calls[1][1].info = W1
    /\ calls[1][2].info = W1_app
    /\ calls[1][2].enqueued = 1
    /\ Len(queue[1]) = 2

\* an icon-only change was sent and nothing was enqueued for it
C2_WitnessIcon ==
    /\ TwoCallsDone(1)
    /\ calls[1][1].info = W1
    /\ calls[1][2].info = W1_icon
    /\ calls[1][2].enqueued = 0

(***************************************************************************)
(* Claims about the monitored Reporter                                     *)
(***************************************************************************)
\* the messages the monitoring thread has produced so far, oldest first:
\* written, queued, built
Written(r) == [i \in 1..Len(wire[r]) |-> wire[r][i].json]
Produced(r) ==
    Written(r) \o queue[r] \o pending[r]["monitor"]

WindowFrame(info) == WindowInfoMessage(WindowInfoData(info))

\* the Snapshot Source has yielded W1, W1, W2 to the three polling cycles so
\* far, and no send has failed
Scenario(r) ==
    /\ Len(captures[r]) = 3
    /\ captures[r][1] = captures[r][2]
    /\ DiffersInReported(captures[r][2], captures[r][3])
    /\ lost[r] = 0

\* C3: when the Snapshot Source yields W1, W1, W2 on three consecutive polling
\* cycles and no send fails, exactly two window_info messages are produced,
\* for the first and the third snapshot, and they reach the wire in that
\* order: once the queue is drained the wire holds exactly these two frames.
C3_EndToEnd ==
    \A r \in Reporters :
       Scenario(r)
       => /\ Produced(r) = <<WindowFrame(captures[r][1]), WindowFrame(captures[r][3])>>
          /\ (queue[r] = <<>> /\ pending[r]["monitor"] = <<>>)
             => wire[r] = <<TextFrame(WindowFrame(captures[r][1])),
                            TextFrame(WindowFrame(captures[r][3]))>>

\* the scenario has run and both frames are on the wire of a live connection
C3_Witness ==
    /\ captures[1] = <<W1, W1, W2>>
    /\ lost[1] = 0
    /\ pc[1] = "connected"
    /\ wire[1] = <<TextFrame(WindowFrame(W1)), TextFrame(WindowFrame(W2))>>

\* C10: the connected flag is true exactly while the control loop is in
\* Connected: false in Idle, Connecting and Backoff, true from the handshake
\* success until the select loop is left.
C10_FlagIffConnected ==
    \A r \in Reporters : is_connected[r] <=> pc[r] = "connected"

\* a session has ended by a failed send and the loop is backing off
C10_Witness ==
    /\ lost[1] = 1
    /\ pc[1] = "retry_wait"
    /\ ~is_connected[1]

(***************************************************************************)
(* Producers of media_playback and of artwork uploads                      *)
(***************************************************************************)
\* the log keeps the last two send_media_playback calls, where it is recorded
MediaLogged(log, e) == IF "mcalls" \in observe THEN Last(2, Append(log, e)) ELSE log

\* send_media_playback without the cache lookup
CachedUrl_Never(r, metadata) == None

\* line 641-642: the url the cache holds for the snapshot's content id
CachedUrl(r, metadata) ==
    IF IsSome(metadata.content_item_identifier)
    THEN artwork_urls[r][Unwrap(metadata.content_item_identifier)]
    ELSE None

\* Reporter::send_media_playback, lines 640-668: the fingerprint of the pair
\* and the message built when it differs from the one swapped out
send_media_playback(r, metadata, state) ==
    LET metadata_data == MediaMetadataData(metadata, CachedUrl(r, metadata))
        state_data == PlaybackStateData(state)
        new_hash == HashMedia(metadata_data, state_data)
        old_hash == last_media_hash[r]
    IN  [new_hash |-> new_hash,
         msgs |-> IF new_hash # old_hash
                  THEN <<MediaPlaybackMessage(metadata_data, state_data)>>
                  ELSE <<>>]

\* Reporter::upload_artwork, lines 673-679: the message is built unconditionally
upload_artwork(content_item_identifier, artwork_data, mime_type) ==
    <<UploadArtwork(content_item_identifier, artwork_data, mime_type)>>

\* the three parts an upload needs (reporter.rs 400-401, main.rs 68-69)
HasArtwork(metadata) ==
    /\ IsSome(metadata.artwork_data)
    /\ IsSome(metadata.artwork_mime_type)
    /\ IsSome(metadata.content_item_identifier)

\* decode and upload_artwork (reporter.rs 410-418, main.rs 71-78)
DecodeAndUpload(metadata) ==
    LET bytes == Base64Decode(Unwrap(metadata.artwork_data)) IN
    IF IsSome(bytes)
    THEN upload_artwork(Unwrap(metadata.content_item_identifier), Unwrap(bytes),
                        Unwrap(metadata.artwork_mime_type))
    ELSE <<>>

\* the entry of one send_media_playback call in the log
MediaCall(r, p, metadata, state) ==
    [by |-> p, metadata |-> metadata, state |-> state,
     url |-> CachedUrl(r, metadata), enqueued |-> 0]

\* frame i of a wire is the upload_artwork_meta frame of content id c
IsMetaFor(w, i, c) ==
    /\ w[i].frame = "text"
    /\ w[i].json.msg_type = "upload_artwork_meta"
    /\ w[i].json.content_item_identifier = c

\* the binary frames written for content id c: each follows its meta frame
BinaryFramesFor(r, c) ==
    Cardinality({i \in 1..(Len(wire[r]) - 1) :
                    IsMetaFor(wire[r], i, c) /\ wire[r][i + 1].frame = "binary"})

\* upload_artwork was called for a content id whose binary frame is written
\* and whose acknowledgement is stored in the cache
CountCached(r, p, msgs) ==
    [cached_uploads EXCEPT ![r][p] =
        @ + Cardinality({i \in 1..Len(msgs) :
              /\ msgs[i].msg_type = "upload_artwork"
              /\ IsSome(artwork_urls[r][msgs[i].content_item_identifier])
              /\ BinaryFramesFor(r, msgs[i].content_item_identifier) >= 1})]

\* the snapshots of the direct calls: one track at every position, paused,
\* and another track
ApiMediaInputs ==
    {<<TrackA, s>> : s \in PlaybackStates}
    \cup {<<TrackA, PlaybackState(FALSE, 0, 9)>>, <<TrackB, PlaybackState(TRUE, 1000, 9)>>}

\* a direct call of the public send_media_playback
CallSendMediaPlayback(r, inputs) ==
    /\ alive[r]
    /\ pending[r]["api"] = <<>>
    /\ produced[r] + InFlight(r) < MaxApiMedia
    /\ \E in \in inputs :
          LET metadata == in[1]
              state == in[2]
              smp == send_media_playback(r, metadata, state)
          IN
          /\ last_media_hash' = [last_media_hash EXCEPT ![r] = smp.new_hash]
          /\ pending' = [pending EXCEPT ![r]["api"] = smp.msgs]
          /\ mcalls' = [mcalls EXCEPT ![r] =
                 MediaLogged(@, MediaCall(r, "api", metadata, state))]
    /\ UNCHANGED <<alive, config, queue, last_window_hash, artwork_urls, is_connected>>
    /\ UNCHANGED <<produced, calls, captures, cached_uploads>>
    /\ UNCHANGED <<loopVars, monitorVars, envVars, ffiVars, ghostVars>>

ApiSendMediaPlayback(r) == CallSendMediaPlayback(r, ApiMediaInputs)

\* a direct call of the public upload_artwork
ApiUploadArtwork(r) ==
    /\ alive[r]
    /\ pending[r]["api"] = <<>>
    /\ produced[r] + InFlight(r) < MaxApiMedia
    /\ \E metadata \in Tracks :
          LET msgs == DecodeAndUpload(metadata) IN
          /\ pending' = [pending EXCEPT ![r]["api"] = msgs]
          /\ cached_uploads' = CountCached(r, "api", msgs)
    /\ UNCHANGED <<reporterVars, loopVars, monitorVars, envVars, ffiVars, ghostVars>>
    /\ UNCHANGED <<produced, calls, captures, mcalls>>

(***************************************************************************)
(* The change detector for media under direct calls: one Reporter, enabled *)
(* or not, a caller of send_media_playback and upload_artwork, the        *)
(* control loop and the collector; the monitoring thread finds no window   *)
(* and media reporting is off.                                             *)
(***************************************************************************)
InitMediaApi ==
    /\ InitReporters({1})
    /\ config[1].ws_url = EnabledConfig.ws_url
    /\ observe = {"mcalls"}
    /\ curWindow = CaptureErr
    /\ curMedia = None
    /\ mediaEnv = FALSE
    /\ serFaults = FALSE

NextMediaApi ==
    \E r \in Reporters :
       \/ ApiSendMediaPlayback(r)
       \/ ApiUploadArtwork(r)
       \/ TxSend(r, "api")
       \/ MonitorWindow(r)
       \/ LoopTop(r)
       \/ IdleWake(r)
       \/ HandshakeOk(r)
       \/ HandshakeFail(r)
       \/ RetryWake(r)
       \/ CooldownWake(r)
       \/ SendNext(r)
       \/ RecvText(r)
       \/ RecvClose(r)

SpecMediaApi == InitMediaApi /\ [][NextMediaApi]_vars

(***************************************************************************)
(* Claims about the change detector for media                              *)
(***************************************************************************)
Abs(x) == IF x >= 0 THEN x ELSE 0 - x

\* the last two send_media_playback calls on r have returned
TwoMediaCallsDone(r) ==
    /\ Len(mcalls[r]) = 2
    /\ \A p \in Producers : pending[r][p] = <<>>

\* the two calls differ in elapsed_time only, and found the same cache entry
OnlyElapsedDiffers(a, b) ==
    /\ a.metadata = b.metadata
    /\ a.state.playing = b.state.playing
    /\ a.state.playback_rate = b.state.playback_rate
    /\ a.state.elapsed_time # b.state.elapsed_time
    /\ a.url = b.url

\* C4 as stated: of two consecutive send_media_playback calls that differ in
\* elapsed_time only, the second enqueues nothing when the two values are
\* less than one second apart and a message when they are more than one
\* second apart (one second is 10 tenths).
C4_AsStated ==
    \A r \in Reporters :
       (TwoMediaCallsDone(r) /\ OnlyElapsedDiffers(mcalls[r][1], mcalls[r][2]))
       => LET d == Abs(mcalls[r][1].state.elapsed_time - mcalls[r][2].state.elapsed_time)
          IN  /\ d < 10 => mcalls[r][2].enqueued = 0
              /\ d > 10 => mcalls[r][2].enqueued = 1

\* C4: of two consecutive send_media_playback calls that differ in
\* elapsed_time only (and find the same url in the cache), the second
\* enqueues nothing exactly when both values have the same whole-second part
\* (truncated toward zero), and one message otherwise.
C4_Quantization ==
    \A r \in Reporters :
       (TwoMediaCallsDone(r) /\ OnlyElapsedDiffers(mcalls[r][1], mcalls[r][2]))
       => IF TruncF64(mcalls[r][1].state.elapsed_time)
             = TruncF64(mcalls[r][2].state.elapsed_time)
          THEN mcalls[r][2].enqueued = 0
          ELSE mcalls[r][2].enqueued = 1

\* 0.9 s then 1.1 s: 0.2 s apart, on either side of a whole second, and the
\* second call has enqueued a message
C4_Witness ==
    /\ TwoMediaCallsDone(1)
    /\ OnlyElapsedDiffers(mcalls[1][1], mcalls[1][2])
    /\ mcalls[1][1].state.elapsed_time = 9
    /\ mcalls[1][2].state.elapsed_time = 11
    /\ mcalls[1][2].enqueued = 1

(***************************************************************************)
(* The pollers of media: the monitoring thread (reporter.rs 355-428) and   *)
(* the polling task of main.rs (35-104)                                    *)
(***************************************************************************)
\* lines 399-407: upload only for changed metadata that has artwork, a mime
\* type and a content id the cache does not hold
needs_upload(r, metadata, metadata_changed) ==
    /\ metadata_changed
    /\ HasArtwork(metadata)
    /\ ~IsSome(artwork_urls[r][Unwrap(metadata.content_item_identifier)])

\* start_window_monitoring, lines 355-428: one polling cycle, media part
MonitorMedia(r) ==
    /\ alive[r]
    /\ cycle[r]["monitor"] = "media"
    /\ pending[r]["monitor"] = <<>>
    /\ cycle' = [cycle EXCEPT ![r]["monitor"] = "window"]
    /\ IF mediaEnv /\ IsSome(curMedia)
       THEN LET metadata == Unwrap(curMedia)[1]
                state == Unwrap(curMedia)[2]
                metadata_changed == last_media_metadata[r] # Some(metadata)
                state_changed == last_playback_state[r] # Some(state)
                smp == send_media_playback(r, metadata, state)
                up == IF needs_upload(r, metadata, metadata_changed)
                      THEN DecodeAndUpload(metadata) ELSE <<>>
            IN  IF metadata_changed \/ state_changed
                THEN /\ produced[r] + InFlight(r) < MaxProduced
                     /\ last_media_hash' = [last_media_hash EXCEPT ![r] = smp.new_hash]
                     /\ pending' = [pending EXCEPT ![r]["monitor"] = smp.msgs \o up]
                     /\ mcalls' = [mcalls EXCEPT ![r] =
                            MediaLogged(@, MediaCall(r, "monitor", metadata, state))]
                     /\ cached_uploads' = CountCached(r, "monitor", up)
                     /\ last_media_metadata' =
                            [last_media_metadata EXCEPT ![r] = Some(metadata)]
                     /\ last_playback_state' =
                            [last_playback_state EXCEPT ![r] = Some(state)]
                ELSE UNCHANGED <<last_media_hash, pending, mcalls, cached_uploads,
                                 last_media_metadata, last_playback_state>>
       ELSE UNCHANGED <<last_media_hash, pending, mcalls, cached_uploads,
                        last_media_metadata, last_playback_state>>
    /\ UNCHANGED <<alive, config, queue, last_window_hash, artwork_urls, is_connected>>
    /\ UNCHANGED <<last_window_info, permission_warned>>
    /\ UNCHANGED <<produced, calls, captures>>
    /\ UNCHANGED <<loopVars, envVars, ffiVars, ghostVars>>

\* the Reporter main.rs creates and hands to its polling task
MainReporter == 1

\* main.rs 43-52: one tick of the polling task, window part
TaskWindow(r) ==
    /\ r = MainReporter
    /\ alive[r]
    /\ cycle[r]["task"] = "window"
    /\ pending[r]["task"] = <<>>
    /\ cycle' = [cycle EXCEPT ![r]["task"] = AfterWindow]
    /\ IF curWindow = CaptureErr
       THEN UNCHANGED <<last_window_hash, pending, calls>>
       ELSE /\ produced[r] + InFlight(r) < MaxCalls
            /\ send_window_info(r, "task", curWindow)
    /\ UNCHANGED <<alive, config, queue, last_media_hash, artwork_urls, is_connected>>
    /\ UNCHANGED <<last_window_info, last_media_metadata, last_playback_state,
                   permission_warned>>
    /\ UNCHANGED <<produced, captures, mcalls, cached_uploads>>
    /\ UNCHANGED <<loopVars, envVars, ffiVars, ghostVars>>

\* main.rs 54-101: one tick of the polling task, media part; the upload is
\* requested on every tick that finds artwork, with no look at the cache
TaskMedia(r) ==
    /\ r = MainReporter
    /\ alive[r]
    /\ cycle[r]["task"] = "media"
    /\ pending[r]["task"] = <<>>
    /\ cycle' = [cycle EXCEPT ![r]["task"] = "window"]
    /\ IF mediaEnv /\ IsSome(curMedia)
       THEN LET metadata == Unwrap(curMedia)[1]
                state == Unwrap(curMedia)[2]
                smp == send_media_playback(r, metadata, state)
                up == IF HasArtwork(metadata) THEN DecodeAndUpload(metadata) ELSE <<>>
            IN  /\ produced[r] + InFlight(r) < MaxCalls
                /\ last_media_hash' = [last_media_hash EXCEPT ![r] = smp.new_hash]
                /\ pending' = [pending EXCEPT ![r]["task"] = smp.msgs \o up]
                /\ mcalls' = [mcalls EXCEPT ![r] =
                       MediaLogged(@, MediaCall(r, "task", metadata, state))]
                /\ cached_uploads' = CountCached(r, "task", up)
       ELSE UNCHANGED <<last_media_hash, pending, mcalls, cached_uploads>>
    /\ UNCHANGED <<alive, config, queue, last_window_hash, artwork_urls, is_connected>>
    /\ UNCHANGED <<last_window_info, last_media_metadata, last_playback_state,
                   permission_warned>>
    /\ UNCHANGED <<produced, calls, captures>>
    /\ UNCHANGED <<loopVars, envVars, ffiVars, ghostVars>>

\* the player moves to another track or position, starts or stops
MediaChange(results) ==
    /\ curMedia' \in results \ {curMedia}
    /\ UNCHANGED <<curWindow, mediaEnv, serFaults, config_file, app_config>>
    /\ UNCHANGED <<reporterVars, loopVars, monitorVars, producerVars, ffiVars, ghostVars>>

\* what the player shows in the monitored runs: nothing, or one of two tracks
SourceMedia ==
    {None, Some(<<TrackA, PlaybackState(TRUE, 1000, 9)>>),
     Some(<<TrackB, PlaybackState(TRUE, 1000, 9)>>)}

(***************************************************************************)
(* A Reporter in the FFI embedding, enabled or not, with media reporting on *)
(* (ENABLE_MEDIA_REPORTING=1): the monitoring thread is the only producer; *)
(* no window can be captured.                                              *)
(***************************************************************************)
InitMedia ==
    /\ InitReporters({1})
    /\ config[1].ws_url = EnabledConfig.ws_url
    /\ observe = {"wire"}
    /\ curWindow = CaptureErr
    /\ curMedia \in SourceMedia
    /\ mediaEnv = TRUE
    /\ serFaults = FALSE

NextMedia ==
    \/ MediaChange(SourceMedia)
    \/ \E r \in Reporters :
          \/ MonitorWindow(r)
          \/ MonitorMedia(r)
          \/ TxSend(r, "monitor")
          \/ LoopTop(r)
          \/ IdleWake(r)
          \/ HandshakeOk(r)
          \/ HandshakeFail(r)
          \/ RetryWake(r)
          \/ CooldownWake(r)
          \/ SendNext(r)
          \/ RecvText(r)
          \/ RecvClose(r)

SpecMedia == InitMedia /\ [][NextMedia]_vars

(***************************************************************************)
(* The main.rs process with media reporting on: the Reporter is created    *)
(* only when the loaded configuration enables it, its monitoring thread    *)
(* and the polling task both poll the player; no window can be captured.   *)
(***************************************************************************)
\* what the player shows in the runs of the main.rs process
MainMedia == {None, Some(<<TrackA, PlaybackState(TRUE, 1000, 9)>>)}

InitMain ==
    /\ InitReporters({MainReporter})
    /\ config[MainReporter].enabled
    /\ observe = {"wire"}
    /\ curWindow = CaptureErr
    /\ curMedia \in MainMedia
    /\ mediaEnv = TRUE
    /\ serFaults = FALSE

NextMain ==
    \/ MediaChange(MainMedia)
    \/ \E r \in Reporters :
          \/ MonitorWindow(r)
          \/ MonitorMedia(r)
          \/ TxSend(r, "monitor")
          \/ TaskWindow(r)
          \/ TaskMedia(r)
          \/ TxSend(r, "task")
          \/ LoopTop(r)
          \/ IdleWake(r)
          \/ HandshakeOk(r)
          \/ HandshakeFail(r)
          \/ RetryWake(r)
          \/ CooldownWake(r)
          \/ SendNext(r)
          \/ RecvText(r)
          \/ RecvClose(r)

SpecMain == InitMain /\ [][NextMain]_vars

(***************************************************************************)
(* Claims about artwork uploads                                            *)
(***************************************************************************)
\* C5: on every path that requests an upload, once the binary frame of a
\* content id is written and its acknowledgement is stored in the cache, no
\* further upload is requested for it: the caller consults the cache and
\* skips it.
C5_UploadOnceAfterAck ==
    \A r \in Reporters : \A p \in Producers : cached_uploads[r][p] = 0

\* C6: the artwork binary frame of a content id is written to the wire at
\* most once, in every execution.
C6_AtMostOnceUpload ==
    \A r \in Reporters : \A c \in ContentIds : BinaryFramesFor(r, c) <= 1

(***************************************************************************)
(* The FFI lifecycle (ffi/reporter.rs)                                     *)
(***************************************************************************)
\* the instance Reporter::new creates next
Fresh == CHOOSE r \in Reporters : ~alive[r] /\ \A q \in Reporters : q < r => alive[q]

\* the calls of a host thread are counted, and bounded, where they are
\* recorded
CallNo(k) == IF "ffi" \in observe THEN ffi_ret[k].n + 1 ELSE 0
MayCall(k) ==
    /\ ffi_pc[k] = "idle"
    /\ "ffi" \in observe => ffi_ret[k].n < MaxFfiCalls

\* sm_reporter_start without the check of lines 53-59
sm_reporter_start_NoCheck(k) ==
    /\ MayCall(k)
    /\ \E cfg \in {None} \cup {Some(c) : c \in Configs} :
          IF cfg = None
          THEN /\ ffi_ret' = [ffi_ret EXCEPT ![k] = Ret("start", FALSE, FALSE, CallNo(k))]
               /\ ffi_arg' = [ffi_arg EXCEPT ![k] = IF "ffi" \in observe THEN cfg ELSE @]
               /\ UNCHANGED ffi_pc
          ELSE /\ ffi_pc' = [ffi_pc EXCEPT ![k] = "checked"]
               /\ ffi_arg' = [ffi_arg EXCEPT ![k] = cfg]
               /\ UNCHANGED ffi_ret
    /\ UNCHANGED GLOBAL_REPORTER
    /\ UNCHANGED <<reporterVars, loopVars, monitorVars, producerVars, envVars, ghostVars>>

\* sm_reporter_start, lines 43-59: the null check and the check of the
\* global, under the first lock
sm_reporter_start(k) ==
    /\ MayCall(k)
    /\ \E cfg \in {None} \cup {Some(c) : c \in Configs} :
          IF cfg = None \/ GLOBAL_REPORTER # NoReporter
          THEN /\ ffi_ret' = [ffi_ret EXCEPT ![k] = Ret("start", FALSE, FALSE, CallNo(k))]
               /\ ffi_arg' = [ffi_arg EXCEPT ![k] = IF "ffi" \in observe THEN cfg ELSE @]
               /\ UNCHANGED ffi_pc
          ELSE /\ ffi_pc' = [ffi_pc EXCEPT ![k] = "checked"]
               /\ ffi_arg' = [ffi_arg EXCEPT ![k] = cfg]
               /\ UNCHANGED ffi_ret
    /\ UNCHANGED GLOBAL_REPORTER
    /\ UNCHANGED <<reporterVars, loopVars, monitorVars, producerVars, envVars, ghostVars>>

\* sm_reporter_start, lines 61-89: Reporter::new spawns the control loop and
\* the monitoring thread; the instance is stored under the second lock
sm_reporter_start_store(k) ==
    /\ ffi_pc[k] = "checked"
    /\ \E r \in Reporters : ~alive[r]
    /\ alive' = [alive EXCEPT ![Fresh] = TRUE]
    /\ config' = [config EXCEPT ![Fresh] = Unwrap(ffi_arg[k])]
    /\ pc' = [pc EXCEPT ![Fresh] = "top"]
    /\ GLOBAL_REPORTER' = Fresh
    /\ ffi_pc' = [ffi_pc EXCEPT ![k] = "idle"]
    /\ ffi_arg' = [ffi_arg EXCEPT ![k] = IF "ffi" \in observe THEN @ ELSE None]
    /\ ffi_ret' = [ffi_ret EXCEPT ![k] = Ret("start", TRUE, FALSE, CallNo(k))]
    /\ UNCHANGED <<queue, last_window_hash, last_media_hash, artwork_urls, is_connected>>
    /\ UNCHANGED <<reconnect_attempts, ws_url, wire, lost, backoff_log, observe>>
    /\ UNCHANGED <<monitorVars, producerVars, envVars, ghostVars>>

\* sm_reporter_stop answering true whatever it found
sm_reporter_stop_AlwaysTrue(k) ==
    /\ MayCall(k)
    /\ GLOBAL_REPORTER' = NoReporter
    /\ ffi_ret' = [ffi_ret EXCEPT ![k] = Ret("stop", TRUE, FALSE, CallNo(k))]
    /\ UNCHANGED <<ffi_pc, ffi_arg>>
    /\ UNCHANGED <<reporterVars, loopVars, monitorVars, producerVars, envVars, ghostVars>>

\* sm_reporter_stop, lines 101-112: the global is cleared; the threads of the
\* instance it held are neither signalled nor joined
sm_reporter_stop(k) ==
    /\ MayCall(k)
    /\ IF GLOBAL_REPORTER # NoReporter
       THEN /\ GLOBAL_REPORTER' = NoReporter
            /\ ffi_ret' = [ffi_ret EXCEPT ![k] = Ret("stop", TRUE, FALSE, CallNo(k))]
       ELSE /\ UNCHANGED GLOBAL_REPORTER
            /\ ffi_ret' = [ffi_ret EXCEPT ![k] = Ret("stop", FALSE, FALSE, CallNo(k))]
    /\ UNCHANGED <<ffi_pc, ffi_arg>>
    /\ UNCHANGED <<reporterVars, loopVars, monitorVars, producerVars, envVars, ghostVars>>

\* sm_reporter_is_running, lines 142-145
sm_reporter_is_running(k) ==
    /\ MayCall(k)
    /\ ffi_ret' = [ffi_ret EXCEPT ![k] =
           Ret("is_running", GLOBAL_REPORTER # NoReporter, FALSE, CallNo(k))]
    /\ UNCHANGED <<GLOBAL_REPORTER, ffi_pc, ffi_arg>>
    /\ UNCHANGED <<reporterVars, loopVars, monitorVars, producerVars, envVars, ghostVars>>

\* sm_reporter_get_status, lines 122-134: is_connected is a copy of
\* is_running ("we assume connected if running")
sm_reporter_get_status(k) ==
    /\ MayCall(k)
    /\ LET is_running == GLOBAL_REPORTER # NoReporter
           connected == is_running
       IN  ffi_ret' = [ffi_ret EXCEPT ![k] =
               Ret("get_status", is_running, connected, CallNo(k))]
    /\ UNCHANGED <<GLOBAL_REPORTER, ffi_pc, ffi_arg>>
    /\ UNCHANGED <<reporterVars, loopVars, monitorVars, producerVars, envVars, ghostVars>>

\* Reporter::is_connected, lines 451-453: the atomic load
Reporter_is_connected(r) == is_connected[r]

(***************************************************************************)
(* The library behind its FFI: a host that calls from one thread starts    *)
(* and stops the reporter, every instance created runs its control loop    *)
(* and its monitoring thread; no window can be captured and the collector  *)
(* sends no text frames.                                                   *)
(***************************************************************************)
\* the thread a host with serialized calls uses
SerialCallers == {"host1"}

InitFfi ==
    /\ InitReporters({})
    /\ observe = {}
    /\ curWindow = CaptureErr
    /\ curMedia = None
    /\ mediaEnv = FALSE
    /\ serFaults = FALSE

NextFfi ==
    \/ \E k \in SerialCallers :
          \/ sm_reporter_start(k)
          \/ sm_reporter_start_store(k)
          \/ sm_reporter_stop(k)
    \/ \E r \in Reporters :
          \/ MonitorWindow(r)
          \/ LoopTop(r)
          \/ IdleWake(r)
          \/ HandshakeOk(r)
          \/ HandshakeFail(r)
          \/ RetryWake(r)
          \/ CooldownWake(r)
          \/ RecvClose(r)

SpecFfi == InitFfi /\ [][NextFfi]_vars

(***************************************************************************)
(* Claims about the lifecycle                                              *)
(***************************************************************************)
\* the instances whose control loop holds a connection or is opening one
Connections == {r \in Reporters : pc[r] \in {"connecting", "connected"}}

\* C9: at any instant at most one transport connection is live or being
\* attempted in the process, whatever sequence of start, stop and transport
\* events came before.
C9_AtMostOneConnection == Cardinality(Connections) <= 1

(***************************************************************************)
(* The order of the frames: the command-line program with one window in    *)
(* front and one track playing, its two producers, the control loop and a  *)
(* collector that acknowledges nothing.  The enqueue number and the kind   *)
(* of every frame written and the start of every connection are recorded   *)
(* in place of the frames' contents.                                       *)
(***************************************************************************)
InitOrder ==
    /\ InitReporters({MainReporter})
    /\ config[MainReporter] = EnabledConfig
    /\ observe = {"order"}
    /\ curWindow = W1
    /\ curMedia = Some(<<TrackA, PlaybackState(TRUE, 1000, 9)>>)
    /\ mediaEnv = TRUE
    /\ serFaults = FALSE

NextOrder ==
    \E r \in Reporters :
       \/ MonitorWindow(r)
       \/ MonitorMedia(r)
       \/ TxSend(r, "monitor")
       \/ TaskWindow(r)
       \/ TaskMedia(r)
       \/ TxSend(r, "task")
       \/ LoopTop(r)
       \/ HandshakeOk(r)
       \/ HandshakeFail(r)
       \/ RetryWake(r)
       \/ CooldownWake(r)
       \/ SendNext(r)
       \/ RecvClose(r)

SpecOrder == InitOrder /\ [][NextOrder]_vars

\* the enqueue numbers of a sequence of records, strictly or weakly rising
Rising(ids) == \A i, j \in 1..Len(ids) : i < j => ids[i] < ids[j]

\* C11: on every Reporter the frames are written, across all its
\* connections, in the order in which their messages were enqueued: a frame
\* of a message enqueued later never precedes a frame of one enqueued
\* earlier, only the meta frame and the binary frame of one upload share a
\* message, and what still waits in the channel was enqueued after all that
\* is written and is itself in enqueue order.
C11_Fifo ==
    \A r \in Reporters :
       LET w == wire_ids[r] IN
       /\ \A i, j \in 1..Len(w) :
             i < j =>
                /\ w[i].id <= w[j].id
                /\ w[i].id = w[j].id =>
                      /\ j = i + 1
                      /\ w[i].frame = "upload_artwork_meta"
                      /\ w[j].frame = "binary"
       /\ Rising(queue_ids[r])
       /\ \A i \in 1..Len(w), q \in 1..Len(queue_ids[r]) : w[i].id < queue_ids[r][q]

\* frames of three kinds written over two connections while a message waits
C11_Witness ==
    \E r \in Reporters :
       /\ {wire_ids[r][i].frame : i \in 1..Len(wire_ids[r])} =
             {"window_info", "media_playback", "upload_artwork_meta", "binary"}
       /\ \E s \in conn_starts[r] : 0 < s /\ s < Len(wire_ids[r])
       /\ queue[r] # <<>>

\* frame i of the record w is a meta frame / is followed by the binary frame
\* of the same message
IsMeta(w, i) == w[i].frame = "upload_artwork_meta"
BinaryFollows(w, i) ==
    /\ i < Len(w)
    /\ w[i + 1].frame = "binary"
    /\ w[i + 1].id = w[i].id

\* the connection that wrote frame i of Reporter r ended right after it
LastOfConnection(r, i) ==
    \/ i \in conn_starts[r]
    \/ i = Len(wire_ids[r]) /\ pc[r] # "connected"

\* C12 as stated: every meta frame written is followed at once, on the same
\* connection, by the binary frame of the same upload.
C12_AsStated ==
    \A r \in Reporters :
       \A i \in 1..Len(wire_ids[r]) :
          IsMeta(wire_ids[r], i) =>
             BinaryFollows(wire_ids[r], i) /\ i \notin conn_starts[r]

\* C12: every meta frame written is followed at once, on the same
\* connection, by the binary frame of the same upload, unless the send of
\* that binary frame failed, and then the meta frame is the last frame of
\* its connection; every binary frame written follows its meta frame.
C12_Adjacency ==
    \A r \in Reporters :
       LET w == wire_ids[r] IN
       \A i \in 1..Len(w) :
          /\ IsMeta(w, i) =>
                \/ BinaryFollows(w, i) /\ i \notin conn_starts[r]
                \/ ~BinaryFollows(w, i) /\ LastOfConnection(r, i)
          /\ w[i].frame = "binary" =>
                /\ i > 1
                /\ IsMeta(w, i - 1)
                /\ w[i - 1].id = w[i].id
                /\ (i - 1) \notin conn_starts[r]

\* one upload written whole, and one whose binary frame failed, followed by
\* a frame of the next connection
C12_Witness ==
    \E r \in Reporters :
       LET w == wire_ids[r] IN
       \E i, j \in 1..Len(w) :
          /\ IsMeta(w, i) /\ BinaryFollows(w, i)
          /\ IsMeta(w, j) /\ ~BinaryFollows(w, j) /\ j \in conn_starts[r] /\ j < Len(w)

(***************************************************************************)
(* The public calls together: one Reporter with a usable endpoint, a host  *)
(* thread calling send_window_info, send_media_playback, upload_artwork    *)
(* and update_config, the monitoring thread, the control loop and the      *)
(* collector with its acknowledgements.                                    *)
(***************************************************************************)
CallWindows == {W1}
\* a track the player gives no content item identifier for
TrackNoId == [TrackA EXCEPT !.content_item_identifier = None]
CallMedia ==
    {<<TrackA, PlaybackState(TRUE, 1000, 9)>>, <<TrackNoId, PlaybackState(TRUE, 1000, 9)>>}

InitCalls ==
    /\ InitReporters({1})
    /\ config[1].ws_url = EnabledConfig.ws_url
    /\ observe = {}
    /\ curWindow = CaptureErr
    /\ curMedia = None
    /\ mediaEnv = FALSE
    /\ serFaults = FALSE

NextCalls ==
    \E r \in Reporters :
       \/ CallSendWindowInfo(r, CallWindows)
       \/ CallSendMediaPlayback(r, CallMedia)
       \/ ApiUploadArtwork(r)
       \/ UpdateConfig(r)
       \/ TxSend(r, "api")
       \/ MonitorWindow(r)
       \/ LoopTop(r)
       \/ IdleWake(r)
       \/ HandshakeOk(r)
       \/ HandshakeFail(r)
       \/ RetryWake(r)
       \/ CooldownWake(r)
       \/ SendNext(r)
       \/ RecvText(r)
       \/ RecvClose(r)

SpecCalls == InitCalls /\ [][NextCalls]_vars

\* the state the four producer calls write
CallState == <<config, pending, queue, last_window_hash, last_media_hash, produced>>

\* C13: the Artwork Upload Cache of a Reporter changes only in a step of its
\* control loop while connected, and the change is the insert of the
\* content id and url of an inbound artwork_uploaded frame that carries
\* both; that step is no producer call (it leaves the configuration, the
\* channel, the change-detector slots and the calls in progress alone), so
\* no producer call modifies the cache.
C13_WrittenOnlyOnAck ==
    [][\A r \in Reporters :
          artwork_urls'[r] # artwork_urls[r] =>
             /\ pc[r] = "connected"
             /\ \E m \in InboundText :
                   /\ m.msg_type = "artwork_uploaded"
                   /\ IsSome(m.content_item_identifier)
                   /\ IsSome(m.artwork_url)
                   /\ artwork_urls'[r] =
                         [artwork_urls[r] EXCEPT
                             ![Unwrap(m.content_item_identifier)] = m.artwork_url]
             /\ UNCHANGED CallState]_vars

\* an acknowledgement is in the cache while all four producer calls have
\* been made: a window and a media message went through the channel, an
\* upload waits in it, and the configuration is not the one of the start
C13_Witness ==
    \E r \in Reporters :
       /\ \E c \in ContentIds : IsSome(artwork_urls[r][c])
       /\ last_window_hash[r] # ZeroHash
       /\ last_media_hash[r] # ZeroHash
       /\ \E i \in 1..Len(queue[r]) : queue[r][i].msg_type = "upload_artwork"
       /\ ~config[r].enabled
       /\ config[r].ws_url = <<>>

\* C14: a content id that is in the Artwork Upload Cache of a Reporter is
\* in it after every step: disconnects, backoff waits, reconnects,
\* configuration updates, producer calls and later acknowledgements remove
\* no entry.
C14_NeverEvicted ==
    [][\A r \in Reporters : \A c \in ContentIds :
          IsSome(artwork_urls[r][c]) => IsSome(artwork_urls'[r][c])]_vars

\* both content ids are cached, the connection they were acknowledged on is
\* gone, the loop sits in the long wait after repeated failures and the
\* configuration has been replaced by a disabled one
C14_Witness ==
    \E r \in Reporters :
       /\ \A c \in ContentIds : IsSome(artwork_urls[r][c])
       /\ pc[r] = "cooldown"
       /\ ~is_connected[r]
       /\ ~config[r].enabled

\* the media_playback message a producer has just built for the channel
BuiltMedia(r, p) ==
    IF /\ pending[r][p] = <<>>
       /\ pending'[r][p] # <<>>
       /\ Head(pending'[r][p]).msg_type = "media_playback"
    THEN Some(Head(pending'[r][p]))
    ELSE None

\* C15: every media_playback message send_media_playback builds for the
\* channel carries, as artwork_url, the url the Artwork Upload Cache holds
\* for the metadata's content id at the time of the call, and no artwork_url
\* when the cache holds none for it or the metadata has no content id.
C15_CachedUrlAttached ==
    [][\A r \in Reporters : \A p \in Producers :
          IsSome(BuiltMedia(r, p)) =>
             LET md == Unwrap(BuiltMedia(r, p)).metadata
                 cid == md.content_item_identifier
             IN  /\ IsSome(cid) /\ IsSome(artwork_urls[r][Unwrap(cid)]) =>
                       md.artwork_url = artwork_urls[r][Unwrap(cid)]
                 /\ IsSome(cid) /\ ~IsSome(artwork_urls[r][Unwrap(cid)]) =>
                       md.artwork_url = None
                 /\ ~IsSome(cid) => md.artwork_url = None]_vars

\* the channel holds a media message with the cached url of its track and
\* one without a content id and without a url, while the cache is not empty
C15_Witness ==
    \E r \in Reporters :
       /\ \E i \in 1..Len(queue[r]) :
             /\ queue[r][i].msg_type = "media_playback"
             /\ IsSome(queue[r][i].metadata.content_item_identifier)
             /\ IsSome(queue[r][i].metadata.artwork_url)
       /\ \E i \in 1..Len(queue[r]) :
             /\ queue[r][i].msg_type = "media_playback"
             /\ ~IsSome(queue[r][i].metadata.content_item_identifier)
             /\ ~IsSome(queue[r][i].metadata.artwork_url)

\* C16 as stated: every step of the connected loop in which a send fails
\* (window_info, media_playback, upload_artwork_meta or binary frame) ends
\* the connection: the connected flag is cleared and the loop waits in
\* Backoff.
C16_SendErrorLeavesConnected ==
    [][\A r \in Reporters :
          (pc[r] = "connected" /\ lost'[r] > lost[r]) =>
             /\ pc'[r] \in {"retry_wait", "cooldown"}
             /\ ~is_connected'[r]]_vars

(***************************************************************************)
(* Transport faults: the library's Reporter with its monitoring thread in  *)
(* front of one window, update_config and the collector, with nothing      *)
(* recorded, under the scheduling the runtime gives the control loop: a    *)
(* sleep that is due ends, the loop's own code runs on, and connect_async  *)
(* answers or times out after 15 s.  Nothing is assumed of the producer,   *)
(* of update_config or of the collector.                                   *)
(***************************************************************************)
InitFaults ==
    /\ InitReporters({1})
    /\ observe = {}
    /\ curWindow \in WindowResults
    /\ curMedia = None
    /\ mediaEnv = FALSE
    /\ serFaults = FALSE

LoopStep(r) ==
    \/ LoopTop(r)
    \/ IdleWake(r)
    \/ RetryWake(r)
    \/ CooldownWake(r)
    \/ HandshakeOk(r)
    \/ HandshakeFail(r)

NextFaults ==
    \E r \in Reporters :
       \/ MonitorWindow(r)
       \/ TxSend(r, "monitor")
       \/ UpdateConfig(r)
       \/ LoopTop(r)
       \/ IdleWake(r)
       \/ HandshakeOk(r)
       \/ HandshakeFail(r)
       \/ RetryWake(r)
       \/ CooldownWake(r)
       \/ SendNext(r)
       \/ RecvText(r)
       \/ RecvClose(r)

SpecFaults ==
    InitFaults /\ [][NextFaults]_vars /\ \A r \in Reporters : WF_vars(LoopStep(r))

\* the places of run_reporter's loop
LoopPlaces == {"top", "idle_sleep", "connecting", "connected", "retry_wait", "cooldown"}

\* line 466-483: the configuration is enabled and its endpoint parses
Usable(cfg) == cfg.enabled /\ UrlParseOk(NormalizeUrl(cfg.ws_url))

\* C17: the control loop of a live Reporter is always at one of the places
\* of its loop (it never returns), and whenever an attempt has failed or a
\* session has ended (the attempt counter is above zero) the loop later
\* starts another connection attempt, unless the configuration stops being
\* enabled with a parseable endpoint.
C17_NeverFatal ==
    \A r \in Reporters :
       /\ [](alive[r] => pc[r] \in LoopPlaces)
       /\ (alive[r] /\ reconnect_attempts[r] > 0 /\ pc[r] # "connecting")
             ~> (pc[r] = "connecting" \/ ~Usable(config[r]))

\* after a session that took messages from the channel and ended, and an
\* attempt that failed, the loop is connecting again
C17_Witness ==
    \E r \in Reporters :
       /\ pc[r] = "connecting"
       /\ reconnect_attempts[r] >= 2
       /\ produced[r] >= 1 /\ queue[r] = <<>>
       /\ Usable(config[r])

(***************************************************************************)
(* Messages that do not serialize: the program of the frame order with no  *)
(* window in front, where serde_json::to_string may return Err for any     *)
(* message, with the failed sends counted.                                 *)
(***************************************************************************)
InitSerialize ==
    /\ InitReporters({MainReporter})
    /\ config[MainReporter] = EnabledConfig
    /\ observe = {"order", "lost"}
    /\ curWindow = CaptureErr
    /\ curMedia = Some(<<TrackA, PlaybackState(TRUE, 1000, 9)>>)
    /\ mediaEnv = TRUE
    /\ serFaults = TRUE

SpecSerialize == InitSerialize /\ [][NextOrder]_vars

\* the connected loop of r takes a message that is not written, with no send
\* that failed: the message did not serialize
DropStep(r) ==
    /\ pc[r] = "connected"
    /\ Len(queue'[r]) < Len(queue[r])
    /\ wire_ids'[r] = wire_ids[r]
    /\ lost'[r] = lost[r]

\* C18: a message that cannot be serialized is dropped: the step that takes
\* it writes no frame and does not put it back (the channel holds exactly
\* the messages that were behind it, in their order), the loop stays
\* connected with the connected flag set, and the frames written before and
\* after are still in enqueue order.
C18_DroppedNotFatal ==
    [][/\ C11_Fifo'
       /\ \A r \in Reporters :
             DropStep(r) =>
                /\ queue'[r] = Tail(queue[r])
                /\ queue_ids'[r] = Tail(queue_ids[r])
                /\ pc'[r] = "connected"
                /\ is_connected'[r] = is_connected[r]
                /\ reconnect_attempts'[r] = reconnect_attempts[r]]_vars

\* a message was dropped between two that were written on one connection
C18_Witness ==
    \E r \in Reporters :
       LET w == wire_ids[r] IN
       /\ pc[r] = "connected"
       /\ lost[r] = 0
       /\ conn_starts[r] = {0}
       /\ \E i \in 1..(Len(w) - 1) : w[i + 1].id > w[i].id + 1

(***************************************************************************)
(* Hot reload: the library's Reporter, started enabled, with its           *)
(* monitoring thread in front of one window, the control loop, the         *)
(* collector, and update_config called with other endpoints, tokens and    *)
(* enabled values; the cycles the monitoring thread skips are recorded.    *)
(***************************************************************************)
ReloadConfigs ==
    [enabled : BOOLEAN,
     ws_url : {<<"https://", "collector.example/ws">>, <<"http://", "other.example/ws">>},
     token : {"t1", "t2"}]

InitReload ==
    /\ InitReporters({1})
    /\ config[1] = EnabledConfig
    /\ observe = {"skips"}
    /\ curWindow \in {W1, CaptureErr}
    /\ curMedia = None
    /\ mediaEnv = FALSE
    /\ serFaults = FALSE

NextReload ==
    \E r \in Reporters :
       \/ UpdateConfigTo(r, ReloadConfigs)
       \/ MonitorWindow(r)
       \/ TxSend(r, "monitor")
       \/ LoopTop(r)
       \/ IdleWake(r)
       \/ HandshakeOk(r)
       \/ HandshakeFail(r)
       \/ RetryWake(r)
       \/ CooldownWake(r)
       \/ SendNext(r)
       \/ RecvClose(r)

SpecReload == InitReload /\ [][NextReload]_vars

\* C19 as stated: update_config leaves the live connection and the flag
\* alone, and the new endpoint, token and enabled value take effect only at
\* the top of the next connection cycle: while the connection the loop
\* opened under an enabled configuration is live, nothing acts on a new
\* enabled value, so the monitoring thread skips no cycle.
C19_AsStated ==
    [][\A r \in Reporters :
          /\ config'[r] # config[r] =>
                /\ pc'[r] = pc[r]
                /\ is_connected'[r] = is_connected[r]
                /\ ws_url'[r] = ws_url[r]
          /\ pc[r] = "connected" => skipped'[r] = skipped[r]]_vars

\* C19: update_config replaces the stored configuration and leaves the
\* control loop where it is, the live connection open, the connected flag
\* and the endpoint in use unchanged; the control loop takes the new
\* endpoint and token only at the top of its next cycle, and acts on the
\* enabled value there and nowhere else; the monitoring thread reads the
\* stored enabled value at every polling cycle, so it skips a cycle exactly
\* when the value stored at that moment is false, live connection or not.
C19_HotReload ==
    [][\A r \in Reporters :
          /\ config'[r] # config[r] =>
                /\ pc'[r] = pc[r]
                /\ is_connected'[r] = is_connected[r]
                /\ ws_url'[r] = ws_url[r]
                /\ queue'[r] = queue[r]
          /\ ws_url'[r] # ws_url[r] =>
                /\ pc[r] = "top" /\ pc'[r] = "connecting"
                /\ ws_url'[r] = WsUrl(config[r])
          /\ (pc'[r] = "idle_sleep" /\ pc[r] # "idle_sleep") =>
                pc[r] = "top" /\ ~Usable(config[r])
          /\ (pc'[r] = "connecting" /\ pc[r] # "connecting") =>
                pc[r] = "top" /\ Usable(config[r])
          /\ skipped'[r] # skipped[r] => ~config[r].enabled
          /\ captures'[r] # captures[r] => config[r].enabled]_vars

\* a live connection to the first endpoint with the first token while the
\* stored configuration is disabled and names the other endpoint and token
C19_Witness ==
    \E r \in Reporters :
       /\ pc[r] = "connected"
       /\ is_connected[r]
       /\ ws_url[r] = WsUrl(EnabledConfig)
       /\ ~config[r].enabled
       /\ config[r].ws_url # EnabledConfig.ws_url
       /\ config[r].token = "t2"

(***************************************************************************)
(* The consumer torn down: a Reporter whose control-loop thread died when  *)
(* it started (Runtime::new() failed, line 148), so that the receiving     *)
(* half of the channel is dropped, with a host thread making the three     *)
(* enqueuing calls and the monitoring thread running.                      *)
(***************************************************************************)
InitTeardown ==
    /\ InitBlank
    /\ config_file = MissingFile
    /\ app_config = None
    /\ alive = [r \in Reporters |-> r = 1]
    /\ pc = [r \in Reporters |-> IF r = 1 THEN "dead" ELSE "none"]
    /\ config = [r \in Reporters |-> IF r = 1 THEN EnabledConfig ELSE DefaultConfig]
    /\ observe = {}
    /\ curWindow \in SourceWindows
    /\ curMedia = None
    /\ mediaEnv = FALSE
    /\ serFaults = FALSE

NextTeardown ==
    \E r \in Reporters :
       \/ ApiSendWindowInfo(r)
       \/ ApiSendMediaPlayback(r)
       \/ ApiUploadArtwork(r)
       \/ TxSend(r, "api")
       \/ MonitorWindow(r)
       \/ TxSend(r, "monitor")

SpecTeardown == InitTeardown /\ [][NextTeardown]_vars

\* C20 as stated: with the receiving half of the channel gone, every
\* enqueue by send_window_info, send_media_playback or upload_artwork fails
\* without effect on the channel and is logged: as many failures are logged
\* as there were.
C20_FailureLogged ==
    \A r \in Reporters :
       /\ pc[r] = "dead" => queue[r] = <<>>
       /\ tx_err[r].logged = tx_err[r].failed

(***************************************************************************)
(* The lifecycle calls: two host threads call sm_reporter_start, _stop,    *)
(* _is_running and _get_status in any order and at any time, each call     *)
(* counted.  What the threads of the instances do is left out.             *)
(***************************************************************************)
InitLifecycle ==
    /\ InitReporters({})
    /\ observe = {"ffi"}
    /\ curWindow = CaptureErr
    /\ curMedia = None
    /\ mediaEnv = FALSE
    /\ serFaults = FALSE

NextLifecycle ==
    \E k \in Callers :
       \/ sm_reporter_start(k)
       \/ sm_reporter_start_store(k)
       \/ sm_reporter_stop(k)
       \/ sm_reporter_is_running(k)
       \/ sm_reporter_get_status(k)

SpecLifecycle == InitLifecycle /\ [][NextLifecycle]_vars

(***************************************************************************)
(* Claims about the lifecycle calls                                        *)
(***************************************************************************)
\* thread k returns from a call of fn in this step
Returns(k, fn) == ffi_ret'[k] # ffi_ret[k] /\ ffi_ret'[k].fn = fn

\* the instances created in this step
Created == {r \in Reporters : alive'[r] /\ ~alive[r]}

\* C21: a call of sm_reporter_start that finds a null config pointer or a
\* reporter running at its check returns a null handle and creates no
\* Reporter (it goes past the check only with a config and with none
\* running); a call that goes past the check creates exactly one Reporter
\* with the configuration passed, stores it in the global and returns a
\* non-null handle, so that sm_reporter_is_running is true when it returns;
\* no other step creates a Reporter.
C21_StartContract ==
    [][/\ \A k \in Callers :
             /\ (ffi_pc[k] = "idle" /\ ffi_pc'[k] = "checked") =>
                   /\ GLOBAL_REPORTER = NoReporter
                   /\ IsSome(ffi_arg'[k])
                   /\ Created = {}
             /\ (Returns(k, "start") /\ ~ffi_ret'[k].ok) =>
                   /\ ffi_pc[k] = "idle"
                   /\ Created = {}
                   /\ GLOBAL_REPORTER' = GLOBAL_REPORTER
             /\ (Returns(k, "start") /\ ffi_ret'[k].ok) =>
                   /\ ffi_pc[k] = "checked"
                   /\ Cardinality(Created) = 1
                   /\ GLOBAL_REPORTER' \in Created
                   /\ config'[GLOBAL_REPORTER'] = Unwrap(ffi_arg[k])
             /\ (Returns(k, "is_running") /\ GLOBAL_REPORTER # NoReporter) =>
                   ffi_ret'[k].ok
       /\ Created # {} => \E k \in Callers : Returns(k, "start") /\ ffi_ret'[k].ok]_vars

\* one thread got a handle and the other, calling while that reporter ran,
\* a null handle: one Reporter exists and it is the one stored
C21_Witness ==
    \E k, j \in Callers :
       /\ ffi_ret[k] = Ret("start", TRUE, FALSE, 1)
       /\ ffi_ret[j] = Ret("start", FALSE, FALSE, 1)
       /\ GLOBAL_REPORTER # NoReporter
       /\ {r \in Reporters : alive[r]} = {GLOBAL_REPORTER}

InitStatus == InitFfi

NextStatus ==
    \/ NextFfi
    \/ \E k \in SerialCallers :
          \/ sm_reporter_get_status(k)
          \/ sm_reporter_is_running(k)

SpecStatus == InitStatus /\ [][NextStatus]_vars

\* C23: the is_connected field returned by sm_reporter_get_status for a
\* running reporter equals the flag the control loop of that reporter holds
\* at the time of the call (what Reporter::is_connected returns).
C23_StatusIsTrackerFlag ==
    [][\A k \in SerialCallers :
          (Returns(k, "get_status") /\ GLOBAL_REPORTER # NoReporter) =>
              ffi_ret'[k].is_connected = Reporter_is_connected(GLOBAL_REPORTER)]_vars

(***************************************************************************)
(* The two fingerprint slots under concurrent producers: the polling task  *)
(* of main.rs and a direct caller share one Reporter and call               *)
(* send_window_info and send_media_playback in any interleaving; the       *)
(* channel keeps what they enqueue.                                        *)
(***************************************************************************)
SlotWindows == {W1, W2}

InitSlots ==
    /\ InitReporters({MainReporter})
    /\ config[MainReporter] = EnabledConfig
    /\ observe = {"mcalls"}
    /\ curWindow \in SlotWindows
    /\ curMedia \in MainMedia
    /\ mediaEnv = TRUE
    /\ serFaults = FALSE

NextSlots ==
    \/ WindowChange
    \/ MediaChange(MainMedia)
    \/ \E r \in Reporters :
          \/ TaskWindow(r)
          \/ TaskMedia(r)
          \/ TxSend(r, "task")
          \/ CallSendWindowInfo(r, SlotWindows)
          \/ CallSendMediaPlayback(r, CallMedia)
          \/ TxSend(r, "api")

SpecSlots == InitSlots /\ [][NextSlots]_vars

\* the step is a call of send_window_info / send_media_playback on r: the
\* call log grows (or shifts) while nothing is handed to the channel
IsCall(log, r) == log'[r] # log[r] /\ produced'[r] = produced[r]
NewCall(log, r) == log'[r][Len(log'[r])]

MediaPrint(e) ==
    HashMedia(MediaMetadataData(e.metadata, e.url), PlaybackStateData(e.state))
MediaFrame(e) ==
    MediaPlaybackMessage(MediaMetadataData(e.metadata, e.url), PlaybackStateData(e.state))
OfType(q, t) == SelectSeq(q, LAMBDA m : m.msg_type = t)

\* C24: every call of send_window_info / send_media_playback, from whichever
\* producer and however the calls interleave, replaces the slot of its kind
\* by the fingerprint of its snapshot in the same step in which it reads the
\* old one, and builds a message for the channel exactly when the
\* fingerprint it swapped out differs from the new one; the slots change in
\* no other step, and what a producer has built is what the channel gets.
C24_SwapDecidesEnqueue ==
    [][\A r \in Reporters :
          /\ IsCall(calls, r) =>
                LET e == NewCall(calls, r) IN
                /\ e.old = last_window_hash[r]
                /\ last_window_hash'[r] = Fingerprint(e.info)
                /\ pending'[r][e.by] =
                      IF last_window_hash[r] # Fingerprint(e.info)
                      THEN <<WindowFrame(e.info)>> ELSE <<>>
          /\ IsCall(mcalls, r) =>
                LET e == NewCall(mcalls, r) IN
                /\ last_media_hash'[r] = MediaPrint(e)
                /\ OfType(pending'[r][e.by], "media_playback") =
                      IF last_media_hash[r] # MediaPrint(e)
                      THEN <<MediaFrame(e)>> ELSE <<>>
          /\ last_window_hash'[r] # last_window_hash[r] => IsCall(calls, r)
          /\ last_media_hash'[r] # last_media_hash[r] => IsCall(mcalls, r)
          /\ queue'[r] # queue[r] =>
                \E p \in Producers :
                   /\ pending[r][p] # <<>>
                   /\ queue'[r] = Append(queue[r], Head(pending[r][p]))
                   /\ pending'[r][p] = Tail(pending[r][p])]_vars

\* the slot saw A, B, A from two producers and three window_info messages
\* are queued, the last of them for the snapshot that had been sent before
C24_Witness ==
    /\ OfType(queue[1], "window_info") =
          <<WindowFrame(W1), WindowFrame(W2), WindowFrame(W1)>>
    /\ Len(calls[1]) = 2
    /\ calls[1][1].by # calls[1][2].by
    /\ last_window_hash[1] = Fingerprint(W1)

\* the same for the media slot: a snapshot swapped out another one and was
\* enqueued, the next call with the same snapshot from the other producer
\* was not
C24_WitnessMedia ==
    /\ Len(mcalls[1]) = 2
    /\ mcalls[1][1].by # mcalls[1][2].by
    /\ MediaPrint(mcalls[1][1]) = MediaPrint(mcalls[1][2])
    /\ mcalls[1][1].enqueued = 1
    /\ mcalls[1][2].enqueued = 0
    /\ pending[1]["task"] = <<>> /\ pending[1]["api"] = <<>>
    /\ Len(OfType(queue[1], "media_playback")) = 1

\* C25 as stated: a cycle that reads enabled = false makes no attempt and
\* leaves the flag false, and a cycle that reads enabled = true starts a
\* connection attempt.
C25_AsStated ==
    [][\A r \in Reporters :
          (pc[r] = "top" /\ pc'[r] # "top") =>
             /\ ~config[r].enabled =>
                   (pc'[r] = "idle_sleep" /\ ~is_connected[r] /\ ~is_connected'[r])
             /\ config[r].enabled => pc'[r] = "connecting"]_vars

\* C25: a cycle that reads enabled = false makes no connection attempt,
\* leaves the connected flag false and the endpoint in use untouched, and
\* sleeps; after the sleep the loop is at the top of a cycle again, where it
\* reads the configuration stored at that moment; a cycle that reads
\* enabled = true starts a connection attempt when the endpoint parses as a
\* URL, and otherwise sleeps like a disabled cycle, without an attempt.
C25_Idle ==
    [][\A r \in Reporters :
          /\ (pc[r] = "top" /\ pc'[r] # "top") =>
                /\ ~config[r].enabled =>
                      /\ pc'[r] = "idle_sleep"
                      /\ ~is_connected[r] /\ ~is_connected'[r]
                      /\ ws_url'[r] = ws_url[r]
                /\ (config[r].enabled /\ UrlParseOk(NormalizeUrl(config[r].ws_url))) =>
                      pc'[r] = "connecting" /\ ws_url'[r] = WsUrl(config[r])
                /\ (config[r].enabled /\ ~UrlParseOk(NormalizeUrl(config[r].ws_url))) =>
                      /\ pc'[r] = "idle_sleep"
                      /\ ~is_connected'[r]
                      /\ ws_url'[r] = ws_url[r]
          /\ (pc[r] = "idle_sleep" /\ pc'[r] # "idle_sleep") => pc'[r] = "top"
          /\ pc[r] = "idle_sleep" => ~is_connected[r]]_vars

\* the loop sleeps without an attempt although the stored configuration is
\* enabled: its endpoint does not parse
C25_Witness ==
    \E r \in Reporters :
       /\ pc[r] = "idle_sleep"
       /\ ~is_connected[r]
       /\ config[r].enabled
       /\ ~UrlParseOk(NormalizeUrl(config[r].ws_url))
       /\ reconnect_attempts[r] > 0

(***************************************************************************)
(* The monitoring thread of an enabled Reporter over a capture that fails  *)
(* and recovers: the fault episodes of window capture are recorded.        *)
(***************************************************************************)
InitEpisodes ==
    /\ InitReporters({1})
    /\ config[1] = EnabledConfig
    /\ observe = {"faults"}
    /\ curWindow \in WindowResults
    /\ curMedia = None
    /\ mediaEnv = FALSE
    /\ serFaults = FALSE

NextEpisodes ==
    \/ WindowChange
    \/ \E r \in Reporters :
          \/ MonitorWindow(r)
          \/ TxSend(r, "monitor")

SpecEpisodes == InitEpisodes /\ [][NextEpisodes]_vars

\* C26: within one fault episode of window capture the error is logged at
\* most once; the flag is clear after every cycle that captured a window, so
\* that every episode has its error logged by its first failure.
C26_OncePerEpisode ==
    \A r \in Reporters :
       /\ ~episode[r].twice
       /\ episode[r].last = "ok" => ~permission_warned[r]
       /\ episode[r].last = "err" => episode[r].logged

(***************************************************************************)
(* An outage: a Reporter that may be disabled and enabled again, a direct  *)
(* caller that enqueues whatever the control loop is doing, and a          *)
(* collector that refuses handshakes, closes connections and fails sends.  *)
(* The control loop runs on its own thread and its select loop takes a     *)
(* ready branch at random, so both keep making steps.                      *)
(***************************************************************************)
OutageConfigs == {EnabledConfig, DefaultConfig}

InitOutage ==
    /\ InitReporters({1})
    /\ config[1] \in OutageConfigs
    /\ observe = {"order", "lost"}
    /\ curWindow = CaptureErr
    /\ curMedia = None
    /\ mediaEnv = FALSE
    /\ serFaults = FALSE

NextOutage ==
    \E r \in Reporters :
       \/ CallSendWindowInfo(r, SlotWindows)
       \/ TxSend(r, "api")
       \/ UpdateConfigTo(r, OutageConfigs)
       \/ LoopTop(r)
       \/ IdleWake(r)
       \/ HandshakeOk(r)
       \/ HandshakeFail(r)
       \/ RetryWake(r)
       \/ CooldownWake(r)
       \/ SendNext(r)
       \/ RecvClose(r)

SpecOutage ==
    /\ InitOutage
    /\ [][NextOutage]_vars
    /\ \A r \in Reporters : WF_vars(LoopStep(r)) /\ WF_vars(SendNext(r))

IsPrefix(p, q) == Len(p) <= Len(q) /\ SubSeq(q, 1, Len(p)) = p

\* the wire length at which the latest connection of r was opened
LastStart(r) == CHOOSE s \in conn_starts[r] : \A t \in conn_starts[r] : t <= s

\* nothing waits in the channel of r: every message handed to it was written
\* or was the one message whose failed send ended a connection, and what the
\* latest connection wrote are consecutive messages in their enqueue order
Delivered(r) ==
    /\ queue[r] = <<>>
    /\ Len(wire_ids[r]) + lost[r] = produced[r]
    /\ conn_starts[r] # {}
    /\ \A i \in (LastStart(r) + 1)..(Len(wire_ids[r]) - 1) :
          wire_ids[r][i + 1].id = wire_ids[r][i].id + 1

\* C27: the channel is consumed only while the control loop is Connected;
\* while it is in Idle, Connecting or Backoff whatever is enqueued is added
\* behind what waits and nothing is taken out; and when a connection is
\* established and stays up, everything that waits is written to the wire,
\* in enqueue order.
C27_OutageTolerance ==
    /\ [][\A r \in Reporters :
             /\ Len(queue'[r]) < Len(queue[r]) => pc[r] = "connected"
             /\ pc[r] # "connected" => IsPrefix(queue[r], queue'[r])
             /\ (pc[r] = "connected" /\ pc'[r] = "connected") => lost'[r] = lost[r]]_vars
    /\ \A r \in Reporters : <>[](pc[r] = "connected") => <>[]Delivered(r)

\* all the messages wait in the channel while the control loop is in the long
\* cooldown after five refused handshakes; nothing has been written
C27_Witness ==
    \E r \in Reporters :
       /\ pc[r] = "cooldown"
       /\ Len(queue[r]) = MaxCalls
       /\ Rising(queue_ids[r])
       /\ wire_ids[r] = <<>>

\* the first connection after such an outage has written them all
C27_WitnessDelivered ==
    \E r \in Reporters :
       /\ pc[r] = "connected"
       /\ conn_starts[r] = {0}
       /\ Len(wire_ids[r]) = MaxCalls
       /\ Delivered(r)

(***************************************************************************)
(* Leaving Connected: the Reporter of the outage runs, with the closure of *)
(* the inbound side and the connection boundaries recorded.                *)
(***************************************************************************)
InitDrain ==
    /\ InitReporters({1})
    /\ config[1] \in OutageConfigs
    /\ observe = {"order", "lost", "closed"}
    /\ curWindow = CaptureErr
    /\ curMedia = None
    /\ mediaEnv = FALSE
    /\ serFaults = FALSE

SpecDrain == InitDrain /\ [][NextOutage]_vars

BackoffPlaces == {"retry_wait", "cooldown"}

\* C28: the step in which the inbound side yields a close frame or a read
\* error writes nothing and takes the control loop out of Connected into
\* Backoff with the flag cleared; from then on no frame is written until a
\* later handshake has succeeded, and the frames written after it belong to
\* that new connection.
C28_Draining ==
    [][\A r \in Reporters :
          /\ (closed'[r] /\ ~closed[r]) =>
                /\ wire_ids'[r] = wire_ids[r]
                /\ pc[r] = "connected" /\ pc'[r] \in BackoffPlaces
                /\ ~is_connected'[r]
          /\ closed[r] =>
                /\ wire_ids'[r] = wire_ids[r]
                /\ pc[r] # "connected"
          /\ (closed[r] /\ ~closed'[r]) =>
                /\ pc[r] = "connecting" /\ pc'[r] = "connected"
                /\ Len(wire_ids[r]) \in conn_starts'[r]
          /\ wire_ids'[r] # wire_ids[r] => pc[r] = "connected"
          /\ (pc[r] \in BackoffPlaces /\ pc'[r] # pc[r]) => pc'[r] = "top"]_vars

\* frames were written, the collector closed the connection, and further
\* frames were written on the connection opened after the backoff; no send
\* has failed
C28_Witness ==
    \E r \in Reporters :
       /\ pc[r] = "connected"
       /\ ~closed[r]
       /\ lost[r] = 0
       /\ \E s \in conn_starts[r] : 0 < s /\ s < Len(wire_ids[r])

(***************************************************************************)
(* The start of the main.rs process over any config.toml: the              *)
(* configuration is loaded, and the Reporter is created when the loaded    *)
(* configuration enables it.                                               *)
(***************************************************************************)
InitStartup ==
    /\ InitBlank
    /\ alive = [r \in Reporters |-> FALSE]
    /\ pc = [r \in Reporters |-> "none"]
    /\ config = [r \in Reporters |-> DefaultConfig]
    /\ observe = {}
    /\ curWindow = CaptureErr
    /\ curMedia = None
    /\ mediaEnv = FALSE
    /\ serFaults = FALSE
    /\ config_file \in Files
    /\ app_config = None

\* main.rs line 20: let app_config = load_config();
MainLoadConfig ==
    /\ app_config = None
    /\ app_config' = Some(load_config(config_file))
    /\ UNCHANGED <<curWindow, curMedia, mediaEnv, serFaults, config_file>>
    /\ UNCHANGED <<reporterVars, loopVars, monitorVars, producerVars, ffiVars, ghostVars>>

\* main.rs 24-29: Reporter::new(app_config.reporter.clone()) when enabled
MainCreateReporter ==
    /\ IsSome(app_config)
    /\ ~alive[MainReporter]
    /\ Unwrap(app_config).reporter.enabled
    /\ alive' = [alive EXCEPT ![MainReporter] = TRUE]
    /\ config' = [config EXCEPT ![MainReporter] = Unwrap(app_config).reporter]
    /\ pc' = [pc EXCEPT ![MainReporter] = "top"]
    /\ UNCHANGED <<queue, last_window_hash, last_media_hash, artwork_urls, is_connected>>
    /\ UNCHANGED <<reconnect_attempts, ws_url, wire, lost, backoff_log, observe>>
    /\ UNCHANGED <<monitorVars, producerVars, envVars, ffiVars, ghostVars>>

NextStartup ==
    \/ MainLoadConfig
    \/ MainCreateReporter
    \/ \E r \in Reporters : LoopTop(r) \/ IdleWake(r)

SpecStartup == InitStartup /\ [][NextStartup]_vars

\* the file is missing, cannot be read, or does not parse as an AppConfig
FileFault(file) ==
    \/ ~file.exists
    \/ ~file.readable
    \/ ~TomlFromStr(file.content).ok

\* C29: what load_config returns is always an AppConfig, never an error;
\* for a file that is missing, unreadable or unparseable it is the default
\* one, whose reporter is disabled with an empty endpoint and an empty
\* token, so that no Reporter is created from it.
C29_DefaultOnFault ==
    IsSome(app_config) =>
       LET loaded == Unwrap(app_config) IN
       /\ DOMAIN loaded = {"reporter"}
       /\ DOMAIN loaded.reporter = {"enabled", "ws_url", "token"}
       /\ FileFault(config_file) =>
             /\ loaded.reporter = [enabled |-> FALSE, ws_url |-> <<>>, token |-> ""]
             /\ \A r \in Reporters : ~alive[r]

\* a config.toml whose [reporter] table asks for an enabled reporter but has
\* a token of the wrong type was loaded: the default came back
C29_Witness ==
    /\ IsSome(app_config)
    /\ config_file.exists /\ config_file.readable
    /\ config_file.content.toml
    /\ IsSome(config_file.content.reporter)
    /\ Unwrap(config_file.content.reporter).enabled = Some(Val("boolean", "true"))
    /\ Unwrap(config_file.content.reporter).token = Some(Val("integer", "7"))
    /\ ~Unwrap(app_config).reporter.enabled
    /\ Unwrap(app_config).reporter.token = ""

\* a Reporter was created from a file that parses and enables it
C29_WitnessLoaded ==
    /\ alive[MainReporter]
    /\ ~FileFault(config_file)
    /\ config[MainReporter].enabled
    /\ pc[MainReporter] = "connecting"

(***************************************************************************)
(* The endpoint of the handshake: an enabled Reporter over endpoints with  *)
(* each of the four schemes or none, some of which carry another URL in    *)
(* their query, and a collector that accepts, refuses and closes.          *)
(***************************************************************************)
Endpoints ==
    {<<>>, <<"collector.example/ws">>}
    \cup {<<s, "collector.example/ws">> : s \in Schemes}
    \cup {<<s, "collector.example/ws?via=", e, "proxy.example">> :
             s \in Schemes, e \in {"http://", "https://"}}

EndpointConfigs == [enabled : {TRUE}, ws_url : Endpoints, token : {"t1", "t2"}]

InitEndpoint ==
    /\ InitBlank
    /\ config_file = MissingFile
    /\ app_config = None
    /\ alive = [r \in Reporters |-> r = 1]
    /\ pc = [r \in Reporters |-> IF r = 1 THEN "top" ELSE "none"]
    /\ config \in {f \in [Reporters -> EndpointConfigs \cup {DefaultConfig}] :
                      /\ f[1] \in EndpointConfigs
                      /\ \A r \in Reporters \ {1} : f[r] = DefaultConfig}
    /\ observe = {}
    /\ curWindow = CaptureErr
    /\ curMedia = None
    /\ mediaEnv = FALSE
    /\ serFaults = FALSE

NextEndpoint == \E r \in Reporters : LoopStep(r) \/ RecvClose(r)

SpecEndpoint == InitEndpoint /\ [][NextEndpoint]_vars

\* the scheme an http or https scheme is rewritten to
RewriteScheme(s) ==
    IF s = "http://" THEN "ws://" ELSE IF s = "https://" THEN "wss://" ELSE s

\* the endpoint with its scheme rewritten and nothing else altered
SchemeRewritten(u) == [i \in 1..Len(u) |-> IF i = 1 THEN RewriteScheme(u[i]) ELSE u[i]]

\* C30: the URL of a handshake is the configured endpoint with an http
\* scheme rewritten to ws and an https scheme to wss, nothing else in the
\* endpoint altered, and the configured token as the query parameter token.
C30_EndpointNormalized ==
    \A r \in Reporters :
       pc[r] \in {"connecting", "connected"} =>
          ws_url[r] = [url |-> SchemeRewritten(config[r].ws_url),
                       query |-> <<"token", config[r].token>>]

(***************************************************************************)
(* The main.rs process with its two window producers: the monitoring       *)
(* thread that Reporter::new starts and the polling task both capture the  *)
(* foreground window and call send_window_info; the channel keeps what     *)
(* they enqueue.                                                           *)
(***************************************************************************)
InitRace ==
    /\ InitReporters({MainReporter})
    /\ config[MainReporter] = EnabledConfig
    /\ observe = {}
    /\ curWindow \in SlotWindows
    /\ curMedia = None
    /\ mediaEnv = FALSE
    /\ serFaults = FALSE

NextRace ==
    \/ WindowChange
    \/ \E r \in Reporters :
          \/ MonitorWindow(r)
          \/ TxSend(r, "monitor")
          \/ TaskWindow(r)
          \/ TxSend(r, "task")

SpecRace == InitRace /\ [][NextRace]_vars

\* no producer of r stands between its swap and its tx.send
Quiescent(r) == \A p \in Producers : pending[r][p] = <<>>

\* C31: whenever all producers are quiescent, the window_info message
\* enqueued last carries the snapshot whose fingerprint the window slot
\* holds.
C31_LastEnqueuedIsCurrent ==
    \A r \in Reporters :
       LET ws == OfType(queue[r], "window_info") IN
       (Quiescent(r) /\ ws # <<>>) =>
          HashWindowInfoData(ws[Len(ws)].data) = last_window_hash[r]

(***************************************************************************)
(* A failed send under an unchanged window: the FFI embedding with the     *)
(* foreground window fixed, the monitoring thread polling every second,    *)
(* the control loop and a collector that may fail sends, close and refuse. *)
(* Every thread keeps running: the monitoring thread, the control loop and *)
(* the send arm of its select loop take their steps.                       *)
(***************************************************************************)
InitResend ==
    /\ InitReporters({1})
    /\ config[1] = EnabledConfig
    /\ observe = {"wire"}
    /\ curWindow = W1
    /\ curMedia = None
    /\ mediaEnv = FALSE
    /\ serFaults = FALSE

NextResend ==
    \E r \in Reporters :
       \/ MonitorWindow(r)
       \/ TxSend(r, "monitor")
       \/ LoopTop(r)
       \/ HandshakeOk(r)
       \/ HandshakeFail(r)
       \/ RetryWake(r)
       \/ CooldownWake(r)
       \/ SendNext(r)
       \/ RecvClose(r)

SpecResend ==
    /\ InitResend
    /\ [][NextResend]_vars
    /\ \A r \in Reporters :
          /\ WF_vars(MonitorWindow(r))
          /\ WF_vars(TxSend(r, "monitor"))
          /\ WF_vars(LoopTop(r) \/ HandshakeOk(r) \/ HandshakeFail(r)
                        \/ RetryWake(r) \/ CooldownWake(r))
          /\ WF_vars(SendNext(r))

\* the collector has received a window_info frame for the current window
ReceivedCurrent(r) ==
    \E i \in 1..Len(wire[r]) : wire[r][i] = TextFrame(WindowFrame(curWindow))

\* C32: when the connection is established and stays up while the
\* foreground window remains unchanged, the collector eventually receives a
\* window_info frame for the current window, also when the message for it
\* was dequeued before and its send failed.
C32_EventuallyCurrent ==
    \A r \in Reporters :
       <>[](pc[r] = "connected") => <>ReceivedCurrent(r)

\* C33: wherever the control loop stands outside the long cooldown (at the
\* top of a cycle, in a connection attempt, connected, in the idle sleep or
\* in the short wait) its counter is in 0..4; it is 5 exactly during the
\* long cooldown, which sets it to 0 before the next cycle starts.
C33_CounterBound ==
    \A r \in Reporters :
       /\ reconnect_attempts[r] \in 0..MAX_RECONNECT_ATTEMPTS
       /\ pc[r] = "cooldown" <=> reconnect_attempts[r] = MAX_RECONNECT_ATTEMPTS
       /\ (pc[r] = "top" /\ backoff_log[r] # <<>>
             /\ backoff_log[r][Len(backoff_log[r])].wait = "cooldown")
          => reconnect_attempts[r] = 0

\* the attempt after a long cooldown runs with the counter at 0
C33_Witness ==
    \E r \in Reporters :
       /\ pc[r] = "connecting"
       /\ reconnect_attempts[r] = 0
       /\ backoff_log[r] # <<>>
       /\ backoff_log[r][Len(backoff_log[r])].wait = "cooldown"

\* the control loop of r is in the long cooldown, entered by the last step
\* of its log
InCooldown(r) ==
    /\ pc[r] = "cooldown"
    /\ backoff_log[r] # <<>>
    /\ backoff_log[r][Len(backoff_log[r])].wait = "cooldown"

\* C34 as stated: the long cooldown is entered only after 5 consecutive
\* handshake failures; the end of an established session does not count.
C34_AsStated ==
    \A r \in Reporters :
       InCooldown(r) =>
          /\ Len(backoff_log[r]) = MAX_RECONNECT_ATTEMPTS
          /\ \A i \in 1..Len(backoff_log[r]) : IsFailure(backoff_log[r][i])

\* C34: the long cooldown is entered only by the 5th of 5 consecutive
\* backoff steps with no successful handshake among them; the 2nd to the 5th
\* follow handshake failures, the 1st follows a handshake failure or the end
\* of an established session, which counts like a failure.
C34_FiveBackoffs ==
    \A r \in Reporters :
       InCooldown(r) =>
          LET log == backoff_log[r] IN
          /\ Len(log) = MAX_RECONNECT_ATTEMPTS
          /\ \A i \in 1..Len(log) : log[i].cause # "handshake_ok"
          /\ \A i \in 2..Len(log) : IsFailure(log[i])
          /\ log[1].cause \in {"handshake_failed", "session_ended"}
          /\ \A i \in 1..(Len(log) - 1) : log[i].wait = "retry_wait"

\* the long cooldown after the end of a session and four handshake failures
C34_Witness ==
    \E r \in Reporters :
       /\ InCooldown(r)
       /\ backoff_log[r][1].cause = "session_ended"
       /\ \A i \in 2..MAX_RECONNECT_ATTEMPTS : IsFailure(backoff_log[r][i])

(***************************************************************************)
(* A collector that closes every session: the control loop of one enabled  *)
(* Reporter against a collector whose handshakes succeed or fail and whose *)
(* sessions are closed by the remote side (reporter.rs 501-512, 566-569,   *)
(* 579-599).                                                               *)
(***************************************************************************)
InitFlap ==
    /\ InitReporters({1})
    /\ config[1] = EnabledConfig
    /\ observe = {"backoff"}
    /\ curWindow = CaptureErr
    /\ curMedia = None
    /\ mediaEnv = FALSE
    /\ serFaults = FALSE

NextFlap ==
    \E r \in Reporters :
       \/ LoopTop(r)
       \/ HandshakeOk(r)
       \/ HandshakeFail(r)
       \/ RecvClose(r)
       \/ RetryWake(r)
       \/ CooldownWake(r)

\* every sleep ends, every connection attempt ends, and the collector closes
\* every session it accepted
SpecFlap ==
    /\ InitFlap
    /\ [][NextFlap]_vars
    /\ \A r \in Reporters :
          /\ WF_vars(LoopTop(r))
          /\ WF_vars(HandshakeOk(r) \/ HandshakeFail(r))
          /\ WF_vars(RecvClose(r))
          /\ WF_vars(RetryWake(r))
          /\ WF_vars(CooldownWake(r))

\* none of the last steps of r is a failed handshake: the collector
\* accepted every recent handshake
AllAccepted(r) ==
    \A i \in 1..Len(backoff_log[r]) : ~IsFailure(backoff_log[r][i])

\* C35: against a collector that accepts every handshake and then closes the
\* session at once, the control loop eventually enters the long cooldown.
C35_FlapReachesCooldown ==
    \A r \in {MainReporter} :
       <>[]AllAccepted(r) => <>(pc[r] = "cooldown")

\* C36: every key of the artwork upload cache is a content id whose artwork
\* binary frame this process wrote before: an artwork_uploaded
\* acknowledgement for an id that was never uploaded is not inserted.
C36_CachedWereUploaded ==
    \A r \in Reporters : \A c \in ContentIds :
       IsSome(artwork_urls[r][c]) => BinaryFramesFor(r, c) >= 1

(***************************************************************************)
(* One track that keeps playing: the monitoring thread with media          *)
(* reporting on, the control loop and the collector, while the metadata    *)
(* and the playback state of the player stay the same (reporter.rs         *)
(* 355-428, 640-671, 552-565).                                             *)
(***************************************************************************)
PlayingTrack == <<TrackA, PlaybackState(TRUE, 1000, 9)>>

InitPlay ==
    /\ InitReporters({1})
    /\ config[1] = EnabledConfig
    /\ observe = {"mcalls"}
    /\ curWindow = CaptureErr
    /\ curMedia = Some(PlayingTrack)
    /\ mediaEnv = TRUE
    /\ serFaults = FALSE

NextPlay ==
    \E r \in Reporters :
       \/ MonitorWindow(r)
       \/ MonitorMedia(r)
       \/ TxSend(r, "monitor")
       \/ LoopTop(r)
       \/ HandshakeOk(r)
       \/ HandshakeFail(r)
       \/ RetryWake(r)
       \/ CooldownWake(r)
       \/ SendNext(r)
       \/ RecvText(r)
       \/ RecvClose(r)

\* the monitoring thread keeps polling and the control loop keeps running
SpecPlay ==
    /\ InitPlay
    /\ [][NextPlay]_vars
    /\ \A r \in Reporters :
          /\ WF_vars(MonitorWindow(r))
          /\ WF_vars(MonitorMedia(r))
          /\ WF_vars(TxSend(r, "monitor"))
          /\ WF_vars(LoopTop(r) \/ HandshakeOk(r) \/ HandshakeFail(r)
                        \/ RetryWake(r) \/ CooldownWake(r))
          /\ WF_vars(SendNext(r))

\* the cache of r holds the url of the playing track, which the monitoring
\* thread has reported
AckCachedForReported(r) ==
    /\ last_media_metadata[r] = Some(PlayingTrack[1])
    /\ IsSome(CachedUrl(r, PlayingTrack[1]))

\* a media_playback message built with the cached url was enqueued
EnqueuedWithCachedUrl(r) ==
    \E i \in 1..Len(mcalls[r]) :
       /\ mcalls[r][i].by = "monitor"
       /\ IsSome(mcalls[r][i].url)
       /\ mcalls[r][i].url = CachedUrl(r, PlayingTrack[1])
       /\ mcalls[r][i].enqueued >= 1

\* C37: after the acknowledgement for the artwork of the reported track is
\* cached, the monitoring thread eventually enqueues a media_playback message
\* that carries the cached artwork_url, also when the metadata and the
\* playback state stay unchanged.
C37_UrlEventuallyReported ==
    \A r \in {MainReporter} :
       AckCachedForReported(r) ~> EnqueuedWithCachedUrl(r)

(***************************************************************************)
(* A connection whose inbound stream can end: the control loop, a caller   *)
(* of send_window_info and a collector whose stream yields a close frame,  *)
(* an error, or its end (reporter.rs 514-580).                             *)
(***************************************************************************)
InitHalfOpen ==
    /\ InitReporters({1})
    /\ config[1] = EnabledConfig
    /\ observe = {"lost"}
    /\ curWindow = CaptureErr
    /\ curMedia = None
    /\ mediaEnv = FALSE
    /\ serFaults = FALSE

NextHalfOpen ==
    \E r \in Reporters :
       \/ CallSendWindowInfo(r, SlotWindows)
       \/ TxSend(r, "api")
       \/ LoopTop(r)
       \/ HandshakeOk(r)
       \/ HandshakeFail(r)
       \/ RetryWake(r)
       \/ CooldownWake(r)
       \/ SendNext(r)
       \/ RecvClose(r)
       \/ ReadEnd(r)

\* the control loop keeps running; the host and the collector are free
SpecHalfOpen ==
    /\ InitHalfOpen
    /\ [][NextHalfOpen]_vars
    /\ \A r \in Reporters :
          /\ WF_vars(TxSend(r, "api"))
          /\ WF_vars(LoopTop(r) \/ HandshakeOk(r) \/ HandshakeFail(r)
                        \/ RetryWake(r) \/ CooldownWake(r))
          /\ WF_vars(SendNext(r))

\* C38: when the inbound read stream ends without a close frame or an
\* error, the control loop leaves Connected, sets the connected flag to false
\* and enters Backoff.
C38_StreamEndLeavesConnected ==
    \A r \in {MainReporter} :
       (pc[r] = "read_ended") ~> (pc[r] \in BackoffPlaces /\ ~is_connected[r])

(***************************************************************************)
(* Stopping a running instance: one host thread starts and stops the       *)
(* reporter while the threads of every instance created keep being         *)
(* scheduled (ffi/reporter.rs 101-112; reporter.rs 147-150, 294-308).      *)
(***************************************************************************)
SpecStopped ==
    /\ InitFfi
    /\ [][NextFfi]_vars
    /\ \A r \in Reporters : WF_vars(LoopStep(r)) /\ WF_vars(MonitorWindow(r))

\* the instances that were created and are no longer held by the global:
\* with one host thread, those for which sm_reporter_stop returned true
StoppedReporters == {r \in Reporters : alive[r] /\ GLOBAL_REPORTER # r}

\* C39: after sm_reporter_stop has returned true, the background activity of
\* the stopped Reporter ends: from some point on its control loop makes no
\* further connection attempt and holds no connection.
C39_StoppedGoesQuiet ==
    \A r \in Reporters :
       [](r \in StoppedReporters => <>[](r \notin Connections))

\* every host thread has made one call, an sm_reporter_start with a valid
\* config that has returned, and no other call was made
AllStartedOnce ==
    \A k \in Callers :
       /\ ffi_pc[k] = "idle"
       /\ ffi_ret[k].fn = "start"
       /\ ffi_ret[k].n = 1
       /\ IsSome(ffi_arg[k])

\* C40: under any interleaving of concurrent sm_reporter_start calls with
\* valid configs while no reporter is running, exactly one call creates a
\* Reporter and returns a non-null handle; every other call returns null and
\* creates nothing.
C40_OneStartWins ==
    AllStartedOnce =>
       /\ Cardinality({k \in Callers : ffi_ret[k].ok}) = 1
       /\ Cardinality({r \in Reporters : alive[r]}) = 1

=============================================================================
